---- MODULE Spec2Model ----
(***************************************************************************)
(* Model of notion-sync: the job queue and its worker (src/queue.rs), the  *)
(* page sync pipeline (src/sync.rs), the webhook ingress (src/webhook.rs)  *)
(* and the periodic rescanner (src/scheduler.rs).                          *)
(*                                                                         *)
(* Identifiers (page, database and data source ids) are sequences of       *)
(* characters, so that the JSON encoding of a job on the broker path can   *)
(* be modelled character by character.  Time is counted in seconds and     *)
(* advances in steps of TickSeconds.                                       *)
(***************************************************************************)
EXTENDS Integers, Sequences, FiniteSets, TLC

\* ------------------------------------------------------------------------
\* Bounds of the model
\* ------------------------------------------------------------------------
MaxTicks == 1
MaxWebhooks == 1
MaxFaults == 2
MaxClients == 1
MaxIdLen == 2
TickSeconds == 5
\* total number of environment events: ticks, requests, failures, clients
MaxEvents == 2
\* largest number of blocks below the root of an upstream tree
MaxBlocks == 4
\* largest depth handed to fetch_blocks
MaxDepth == 2
\* results per page of a children listing (page_size)
PageSize == 2
\* largest cursor of a paginated listing
MaxCursor == 2
\* requests after which a paginated call is no longer followed
MaxRequests == 4
\* longest signature header drawn, in characters after the prefix
MaxHeaderLen == 2
\* the handler's clock when a request arrives, in seconds
Now == 10
\* AppState.webhook_max_age_seconds of the deployment
webhook_max_age_seconds == 2

\* ------------------------------------------------------------------------
\* Program constants
\* ------------------------------------------------------------------------
\* mpsc::channel(256), scaled down so that a full channel is reachable
ChannelCapacity == 2
\* Duration::from_secs(10) passed to requeue_after
RequeueDelay == 10
\* sleep(Duration::from_secs(2)) after a failed redis connect
ReconnectDelay == 2

\* ------------------------------------------------------------------------
\* Identifiers and the binding table
\* ------------------------------------------------------------------------
None == <<>>

DbD == <<"d">>
DbX == <<"x">>
DsS == <<"s">>
DsT == <<"t">>
PgP == <<"p">>
PgQ == <<"q">>

\* AppState.databases: one configured binding with two data sources
Databases == << [id |-> DbD, data_sources |-> <<DsS, DsT>>] >>

\* an erroneous lookup that falls back to the first binding
FindDbOrFirst(database_id) ==
    LET S == {i \in 1..Len(Databases) : Databases[i].id = database_id}
    IN IF S = {} THEN 1 ELSE CHOOSE i \in S : \A j \in S : i <= j

\* state.databases.iter().find(|db| db.id == database_id); 0 when absent
FindDb(database_id) ==
    LET S == {i \in 1..Len(Databases) : Databases[i].id = database_id}
    IN IF S = {} THEN 0 ELSE CHOOSE i \in S : \A j \in S : i <= j

\* ------------------------------------------------------------------------
\* SyncJob
\* ------------------------------------------------------------------------
SyncPageById(p) == [type |-> "SyncPageById", page_id |-> p]
SyncPage(db, p) == [type |-> "SyncPage", database_id |-> db, page_id |-> p]
ScanDataSource(db, ds) ==
    [type |-> "ScanDataSource", database_id |-> db, data_source_id |-> ds]

NoJob == [type |-> "none"]
Invalid == [type |-> "invalid"]

\* ------------------------------------------------------------------------
\* JSON encoding of a SyncJob (serde_json::to_string / from_str).
\* A payload is a sequence of tokens: the structural characters, the
\* variant and field names as single tokens, and the characters of the
\* string values one token each.
\* ------------------------------------------------------------------------
QUOTE == "\""
BSLASH == "\\"
NL == "\n"

\* an erroneous escaper that leaves the backslash alone
EscapeCharNoBackslash(c) ==
    IF c = QUOTE THEN <<BSLASH, QUOTE>>
    ELSE IF c = NL THEN <<BSLASH, "n">>
    ELSE <<c>>

\* serde_json string escaping of one character
EscapeChar(c) ==
    IF c = QUOTE THEN <<BSLASH, QUOTE>>
    ELSE IF c = BSLASH THEN <<BSLASH, BSLASH>>
    ELSE IF c = NL THEN <<BSLASH, "n">>
    ELSE <<c>>

RECURSIVE Escape(_)
Escape(s) == IF s = <<>> THEN <<>> ELSE EscapeChar(Head(s)) \o Escape(Tail(s))

JsonString(s) == <<QUOTE>> \o Escape(s) \o <<QUOTE>>

JsonField(name, value) == <<QUOTE, name, QUOTE, ":">> \o JsonString(value)

\* externally tagged enum: {"Variant":{"field":"value",...}}
Encode(job) ==
    <<"{", QUOTE, job.type, QUOTE, ":", "{">> \o
    (CASE job.type = "SyncPageById" ->
            JsonField("page_id", job.page_id)
       [] job.type = "SyncPage" ->
            JsonField("database_id", job.database_id) \o <<",">> \o
            JsonField("page_id", job.page_id)
       [] job.type = "ScanDataSource" ->
            JsonField("database_id", job.database_id) \o <<",">> \o
            JsonField("data_source_id", job.data_source_id)) \o
    <<"}", "}">>

ParseError == [ok |-> FALSE, val |-> <<>>, next |-> 0]

\* reads the characters of a JSON string up to its closing quote
RECURSIVE ReadChars(_, _, _)
ReadChars(s, i, acc) ==
    IF i > Len(s) THEN ParseError
    ELSE IF s[i] = QUOTE THEN [ok |-> TRUE, val |-> acc, next |-> i + 1]
    ELSE IF s[i] = BSLASH THEN
        IF i + 1 > Len(s) THEN ParseError
        ELSE IF s[i + 1] \in {QUOTE, BSLASH}
            THEN ReadChars(s, i + 2, Append(acc, s[i + 1]))
        ELSE IF s[i + 1] = "n" THEN ReadChars(s, i + 2, Append(acc, NL))
        ELSE ParseError
    ELSE IF s[i] = NL THEN ParseError
    ELSE ReadChars(s, i + 1, Append(acc, s[i]))

ReadString(s, i) ==
    IF i <= Len(s) /\ s[i] = QUOTE THEN ReadChars(s, i + 1, <<>>) ELSE ParseError

\* reads "name":"value" pairs separated by commas up to the closing brace
RECURSIVE ReadFields(_, _, _)
ReadFields(s, i, acc) ==
    LET k == ReadString(s, i) IN
    IF ~k.ok \/ k.next > Len(s) \/ s[k.next] # ":" THEN ParseError
    ELSE LET v == ReadString(s, k.next + 1) IN
         IF ~v.ok \/ v.next > Len(s) THEN ParseError
         ELSE LET fields == Append(acc, <<k.val, v.val>>) IN
              IF s[v.next] = "," THEN ReadFields(s, v.next + 1, fields)
              ELSE IF s[v.next] = "}"
                   THEN [ok |-> TRUE, val |-> fields, next |-> v.next + 1]
              ELSE ParseError

\* the values of the field called name among the parsed fields
FieldValues(fields, name) ==
    {fields[i][2] : i \in {j \in 1..Len(fields) : fields[j][1] = <<name>>}}

HasOne(fields, name) == Cardinality(FieldValues(fields, name)) = 1
    /\ Cardinality({j \in 1..Len(fields) : fields[j][1] = <<name>>}) = 1

TheField(fields, name) == CHOOSE v \in FieldValues(fields, name) : TRUE

\* serde_json::from_str::<SyncJob>: Invalid stands for Err
Decode(payload) ==
    IF Len(payload) < 7 THEN Invalid
    ELSE IF ~(payload[1] = "{" /\ payload[2] = QUOTE /\ payload[4] = QUOTE
              /\ payload[5] = ":" /\ payload[6] = "{") THEN Invalid
    ELSE LET tag == payload[3]
             f == ReadFields(payload, 7, <<>>)
         IN IF ~f.ok \/ f.next # Len(payload) \/ payload[Len(payload)] # "}"
               THEN Invalid
            ELSE CASE tag = "SyncPageById" /\ HasOne(f.val, "page_id") ->
                        SyncPageById(TheField(f.val, "page_id"))
                   [] tag = "SyncPage" /\ HasOne(f.val, "database_id")
                                       /\ HasOne(f.val, "page_id") ->
                        SyncPage(TheField(f.val, "database_id"),
                                 TheField(f.val, "page_id"))
                   [] tag = "ScanDataSource" /\ HasOne(f.val, "database_id")
                                       /\ HasOne(f.val, "data_source_id") ->
                        ScanDataSource(TheField(f.val, "database_id"),
                                       TheField(f.val, "data_source_id"))
                   [] OTHER -> Invalid

\* ------------------------------------------------------------------------
\* State
\* ------------------------------------------------------------------------
VARIABLES
    kind,      \* QueueKind chosen by init_queue: "memory" or "redis"
    queue,     \* the channel buffer (memory) or the broker list (redis)
    worker,    \* the worker task: position, current job, sync progress
    active,    \* number of handle_job calls that have not returned
    timers,    \* detached requeue_after tasks
    rescan,    \* the periodic task of spawn_periodic_sync
    web,       \* detached tasks spawned by handle_webhook
    resp,      \* status of the last webhook response, requests handled
    store,     \* objects written: pairs <<database id, path>>
    faults,    \* number of failures injected so far
    sent,      \* per producer: number of enqueues made so far
    recvd,     \* per producer: number of the last job the worker dequeued
    clients,   \* number of enqueues made by other holders of the queue
    codec,     \* the encode/decode round trip of one job
    secret,    \* AppState.webhook_secret, None when not configured
    call       \* a NotionClient call on its own: its input and its result

vars == <<kind, queue, worker, active, timers, rescan, web, resp, store,
          faults, sent, recvd, clients, codec, secret, call>>

mainVars == <<kind, queue, worker, active, timers, rescan, web, resp, store,
              faults, sent, recvd, clients, secret, call>>

\* ------------------------------------------------------------------------
\* Upstream answers and renderer results, drawn from small sets
\* ------------------------------------------------------------------------
\* parent field of GET /v1/pages/{id}
Parents ==
    { [database_id |-> None, data_source_id |-> None],
      [database_id |-> DbD,  data_source_id |-> DsS],
      [database_id |-> DbX,  data_source_id |-> None],
      [database_id |-> None, data_source_id |-> DsS] }

\* NotionClient::get_page_parent
get_page_parent(parent) ==
    [database_id |-> parent.database_id, data_source_id |-> parent.data_source_id]

\* NotionClient::get_page_parent_database_id, called by sync_page_by_id
get_page_parent_database_id(parent) == get_page_parent(parent).database_id

\* results of query_data_source_page_ids
QueryResults == { <<>>, <<PgP, PgQ>> }

BlobA == [path |-> <<"blobs", "a">>, url |-> "u1"]

\* Rendered.blobs as produced by the renderer for the fetched blocks
BlobLists == { <<>>, <<BlobA>> }

PagePath(page_id) == <<"pages", page_id>>

\* ------------------------------------------------------------------------
\* sync_page_by_id / sync_page / sync_blobs as a task that advances from
\* one suspension point to the next
\* ------------------------------------------------------------------------
NoParent == [database_id |-> None, data_source_id |-> None, known |-> FALSE]

IdleSync == [pc |-> "idle", page |-> None, parent |-> NoParent, db |-> None,
             blobs |-> <<>>, seen |-> {}, result |-> "none"]

\* entry of sync_page_by_id: the parent lookup is the first await
StartById(page_id) == [IdleSync EXCEPT !.pc = "parent", !.page = page_id]

\* entry of sync_page: fetch_blocks is the first await
StartSync(database_id, page_id) ==
    [IdleSync EXCEPT !.pc = "fetch", !.page = page_id, !.db = database_id]

Finish(t, result) ==
    [IdleSync EXCEPT !.pc = "done", !.page = t.page, !.parent = t.parent,
                     !.db = t.db, !.result = result]

\* sync_blobs: blobs whose path was already seen are skipped
RECURSIVE SkipSeen(_, _)
SkipSeen(blobs, seen) ==
    IF blobs = <<>> THEN <<>>
    ELSE IF Head(blobs).path \in seen THEN SkipSeen(Tail(blobs), seen)
    ELSE blobs

AfterBlobs(t, blobs, seen) ==
    LET rest == SkipSeen(blobs, seen) IN
    IF rest = <<>> THEN Finish(t, "ok")
    ELSE [t EXCEPT !.pc = "blobs", !.blobs = rest, !.seen = seen]

\* sync_page_by_id: the binding is the one whose id is the parent database id
BindingOfParent(parent) ==
    LET database_id == get_page_parent_database_id(parent) IN
    IF database_id = None THEN None
    ELSE IF FindDb(database_id) = 0 THEN None
    ELSE database_id

\* the parent returned for the page, kept with the task
Known(parent) ==
    [database_id |-> parent.database_id,
     data_source_id |-> parent.data_source_id, known |-> TRUE]

\* the outcomes of the step of task t that is pending in store st
SyncOutcomes(t, st, mayFail) ==
    LET failure == IF mayFail
                   THEN {[t |-> Finish(t, "err"), store |-> st, fault |-> 1]}
                   ELSE {}
    IN CASE t.pc = "parent" ->
              failure \cup
              { LET b == BindingOfParent(parent)
                    u == [t EXCEPT !.parent = Known(parent)]
                IN IF b = None
                   THEN [t |-> Finish(u, "skipped"), store |-> st, fault |-> 0]
                   ELSE [t |-> [u EXCEPT !.pc = "fetch", !.db = b],
                         store |-> st, fault |-> 0] : parent \in Parents }
         [] t.pc = "fetch" ->
              failure \cup
              { [t |-> [t EXCEPT !.pc = "write", !.blobs = bl],
                 store |-> st, fault |-> 0] : bl \in BlobLists }
         [] t.pc = "write" ->
              failure \cup
              { [t |-> AfterBlobs(t, t.blobs, {}),
                 store |-> st \cup {<<t.db, PagePath(t.page)>>},
                 fault |-> 0] }
         [] t.pc = "blobs" ->
              failure \cup
              { [t |-> AfterBlobs(t, Tail(t.blobs),
                                  t.seen \cup {Head(t.blobs).path}),
                 store |-> st \cup {<<t.db, Head(t.blobs).path>>},
                 fault |-> 0] }
         [] OTHER -> {}

\* environment events that have happened so far
Spent == faults + clients + rescan.ticks + resp.count

\* a failure may still be injected
MayFail == faults < MaxFaults /\ Spent < MaxEvents

InSyncPage(t) == t.pc \in {"fetch", "write", "blobs"}

\* ------------------------------------------------------------------------
\* QueueHandle::enqueue
\* ------------------------------------------------------------------------
Producers ==
    {<<"rescan", 0>>, <<"worker", 0>>} \cup {<<"web", k>> : k \in 1..MaxWebhooks}

\* the queue is full: tx.send(job).await does not complete
Full == kind = "memory" /\ Len(queue) >= ChannelCapacity

\* what is stored for a job: the job itself, or its JSON payload
Item(job) == IF kind = "memory" THEN job ELSE Encode(job)

\* an erroneous push at the front of the queue
PushFront(q, entry) == <<entry>> \o q

\* tx.send / RPUSH: the entry goes to the back of the queue
Push(q, entry) == Append(q, entry)

\* results an enqueue can have: Ok, or Err when the broker is unreachable
EnqueueResults ==
    IF kind = "redis" /\ MayFail THEN {"ok", "err"} ELSE {"ok"}

Entry(job, prod, n, waited) ==
    [item |-> Item(job), prod |-> prod, n |-> n, waited |-> waited]

\* an erroneous enqueue that stores the job although it returns Err
EnqueuedAlways(q, job, prod, n, waited, r) ==
    Push(q, Entry(job, prod, n, waited))


\* the queue after enqueue(job) by producer prod returned result r
Enqueued(q, job, prod, n, waited, r) ==
    IF r = "ok" THEN Push(q, Entry(job, prod, n, waited)) ELSE q

FaultOf(r) == IF r = "ok" THEN 0 ELSE 1

\* ------------------------------------------------------------------------
\* Worker: run_memory_worker / run_redis_worker, handle_job, process_job
\* ------------------------------------------------------------------------
IdleWorker == [pc |-> "recv", job |-> NoJob, result |-> "none",
               sync |-> IdleSync, ids |-> <<>>, todo |-> <<>>,
               pushed |-> <<>>, spawned |-> 0, wait |-> 0]

\* a worker that takes the next job while one is still being processed
ReadyToDequeueAnytime(w) == w.pc \notin {"connect", "backoff"}

\* the loop awaits handle_job and the 200 ms sleep before the next recv
ReadyToDequeue(w) == w.pc = "recv"

\* an erroneous requeue that does not sleep
requeue_at_once(job, delay, id) ==
    [id |-> id, job |-> job, remaining |-> 0, waited |-> 0]

\* requeue_after(queue, job, delay): a detached task that sleeps first
requeue_after(job, delay, id) ==
    [id |-> id, job |-> job, remaining |-> delay, waited |-> 0]

\* handle_job has returned: the worker goes to its 200 ms sleep
Returned(w, result) == [w EXCEPT !.pc = "sleep", !.result = result]

\* process_job up to its first await, for a job just dequeued
Dispatch(job) ==
    CASE job.type = "SyncPageById" ->
            [IdleWorker EXCEPT !.pc = "sync", !.job = job,
                               !.sync = StartById(job.page_id)]
      [] job.type = "SyncPage" ->
            IF FindDb(job.database_id) = 0
            THEN [IdleWorker EXCEPT !.pc = "sleep", !.job = job,
                                    !.result = "dropped"]
            ELSE [IdleWorker EXCEPT !.pc = "sync", !.job = job,
                     !.sync = StartSync(job.database_id, job.page_id)]
      [] job.type = "ScanDataSource" ->
            IF FindDb(job.database_id) = 0
            THEN [IdleWorker EXCEPT !.pc = "sleep", !.job = job,
                                    !.result = "dropped"]
            ELSE [IdleWorker EXCEPT !.pc = "query", !.job = job]

\* an erroneous rebuild that requeues every failed page job as SyncPageById
RequeuedJobById(job) ==
    CASE job.type = "SyncPageById" -> SyncPageById(job.page_id)
      [] job.type = "SyncPage" -> SyncPageById(job.page_id)
      [] job.type = "ScanDataSource" ->
            ScanDataSource(job.database_id, job.data_source_id)

\* the job handed to requeue_after: rebuilt from the fields of the failed job
RequeuedJob(job) ==
    CASE job.type = "SyncPageById" -> SyncPageById(job.page_id)
      [] job.type = "SyncPage" -> SyncPage(job.database_id, job.page_id)
      [] job.type = "ScanDataSource" ->
            ScanDataSource(job.database_id, job.data_source_id)

\* run_redis_worker: get_multiplexed_async_connection, 2 s sleep on failure
WorkerConnect ==
    /\ kind = "redis" /\ worker.pc = "connect"
    /\ \/ /\ worker' = [worker EXCEPT !.pc = "recv"]
          /\ UNCHANGED faults
       \/ /\ MayFail
          /\ worker' = [worker EXCEPT !.pc = "backoff", !.wait = ReconnectDelay]
          /\ faults' = faults + 1
    /\ UNCHANGED <<kind, queue, active, timers, rescan, web, resp, store,
                   sent, recvd, clients, codec, secret, call>>

\* run_redis_worker: the 2 s sleep is over, the outer loop connects again
WorkerReconnect ==
    /\ worker.pc = "backoff" /\ worker.wait = 0
    /\ worker' = [worker EXCEPT !.pc = "connect"]
    /\ UNCHANGED <<kind, queue, active, timers, rescan, web, resp, store,
                   faults, sent, recvd, clients, codec, secret, call>>

\* run_redis_worker: blpop returns an error, break to the outer loop
WorkerBlpopFail ==
    /\ kind = "redis" /\ worker.pc = "recv" /\ MayFail
    /\ worker' = [worker EXCEPT !.pc = "connect"]
    /\ faults' = faults + 1
    /\ UNCHANGED <<kind, queue, active, timers, rescan, web, resp, store,
                   sent, recvd, clients, codec, secret, call>>

\* rx.recv() / blpop returns a job; handle_job runs up to its first await
WorkerRecv ==
    /\ ReadyToDequeue(worker) /\ queue # <<>>
    /\ LET e == Head(queue)
           job == IF kind = "memory" THEN e.item ELSE Decode(e.item)
       IN /\ queue' = Tail(queue)
          /\ recvd' = IF e.prod \in Producers
                      THEN [recvd EXCEPT ![e.prod] = e.n] ELSE recvd
          /\ IF job = Invalid
             THEN UNCHANGED <<worker, active>>
             ELSE /\ worker' = Dispatch(job)
                  /\ active' = IF Dispatch(job).pc = "sleep"
                               THEN active ELSE active + 1
    /\ UNCHANGED <<kind, timers, rescan, web, resp, store, faults, sent,
                   clients, codec, secret, call>>

\* process_job, SyncPageById and SyncPage: one step of the page sync; on
\* Err the job is handed to requeue_after and handle_job returns
WorkerSync ==
    /\ worker.pc = "sync"
    /\ \E o \in SyncOutcomes(worker.sync, store, MayFail) :
          /\ store' = o.store
          /\ faults' = faults + o.fault
          /\ IF o.t.pc # "done"
             THEN /\ worker' = [worker EXCEPT !.sync = o.t]
                  /\ UNCHANGED <<timers, active>>
             ELSE /\ active' = active - 1
                  /\ IF o.t.result = "err"
                     THEN /\ timers' = timers \cup
                               {requeue_after(RequeuedJob(worker.job),
                                              RequeueDelay, faults + 1)}
                          /\ worker' = Returned([worker EXCEPT !.sync = o.t,
                                                    !.spawned = 1], "failed")
                     ELSE /\ timers' = timers
                          /\ worker' = Returned([worker EXCEPT !.sync = o.t],
                                                o.t.result)
    /\ UNCHANGED <<kind, queue, rescan, web, resp, sent, recvd, clients, codec, secret, call>>

\* process_job, ScanDataSource: query_data_source_page_ids returns
WorkerQuery ==
    /\ worker.pc = "query"
    /\ \/ /\ MayFail
          /\ faults' = faults + 1
          /\ timers' = timers \cup
                {requeue_after(RequeuedJob(worker.job), RequeueDelay, faults + 1)}
          /\ worker' = Returned([worker EXCEPT !.spawned = 1], "failed")
          /\ active' = active - 1
       \/ /\ \E ids \in QueryResults :
                IF ids = <<>>
                THEN /\ worker' = Returned(worker, "ok")
                     /\ active' = active - 1
                ELSE /\ worker' = [worker EXCEPT !.pc = "enqueue",
                                       !.ids = ids, !.todo = ids]
                     /\ active' = active
          /\ UNCHANGED <<faults, timers>>
    /\ UNCHANGED <<kind, queue, rescan, web, resp, store, sent, recvd,
                   clients, codec, secret, call>>

\* process_job, ScanDataSource: one enqueue of the for loop; its result
\* is ignored
WorkerEnqueue ==
    /\ worker.pc = "enqueue" /\ ~Full
    /\ \E r \in EnqueueResults :
          LET job == SyncPage(worker.job.database_id, Head(worker.todo))
              n == sent[<<"worker", 0>>] + 1
              w == [worker EXCEPT !.todo = Tail(worker.todo),
                       !.pushed = IF r = "ok" THEN Append(worker.pushed, job)
                                  ELSE worker.pushed]
          IN /\ queue' = Enqueued(queue, job, <<"worker", 0>>, n, -1, r)
             /\ sent' = [sent EXCEPT ![<<"worker", 0>>] = n]
             /\ faults' = faults + FaultOf(r)
             /\ IF w.todo = <<>>
                THEN /\ worker' = Returned(w, "ok")
                     /\ active' = active - 1
                ELSE /\ worker' = w
                     /\ active' = active
    /\ UNCHANGED <<kind, timers, rescan, web, resp, store, recvd, clients, codec, secret, call>>

\* the 200 ms sleep after handle_job is over
WorkerWake ==
    /\ worker.pc = "sleep"
    /\ worker' = IdleWorker
    /\ UNCHANGED <<kind, queue, active, timers, rescan, web, resp, store,
                   faults, sent, recvd, clients, codec, secret, call>>

\* ------------------------------------------------------------------------
\* requeue_after: the detached task enqueues once its sleep is over
\* ------------------------------------------------------------------------
RequeueFire(t) ==
    /\ t \in timers /\ t.remaining = 0 /\ ~Full
    /\ \E r \in EnqueueResults :
          /\ queue' = Enqueued(queue, t.job, <<"requeue", t.id>>, 1, t.waited, r)
          /\ faults' = faults + FaultOf(r)
    /\ timers' = timers \ {t}
    /\ UNCHANGED <<kind, worker, active, rescan, web, resp, store, sent,
                   recvd, clients, codec, secret, call>>

Max(a, b) == IF a > b THEN a ELSE b
Min(a, b) == IF a < b THEN a ELSE b

\* TickSeconds pass for every sleeping task
Tick ==
    /\ \/ worker.wait > 0
       \/ \E t \in timers : t.remaining > 0 \/ t.waited < RequeueDelay
    /\ timers' = {[t EXCEPT !.remaining = Max(0, t.remaining - TickSeconds),
                            !.waited = Min(RequeueDelay, t.waited + TickSeconds)]
                   : t \in timers}
    /\ worker' = [worker EXCEPT !.wait = Max(0, worker.wait - TickSeconds)]
    /\ UNCHANGED <<kind, queue, active, rescan, web, resp, store, faults,
                   sent, recvd, clients, codec, secret, call>>

\* ------------------------------------------------------------------------
\* Periodic rescanner: spawn_periodic_sync
\* ------------------------------------------------------------------------
RECURSIVE ScansFrom(_, _)
ScansFrom(i, k) ==
    IF i > Len(Databases) THEN <<>>
    ELSE IF k > Len(Databases[i].data_sources) THEN ScansFrom(i + 1, 1)
    ELSE <<ScanDataSource(Databases[i].id, Databases[i].data_sources[k])>>
         \o ScansFrom(i, k + 1)

\* an erroneous scan list: the first data source of the first binding only
FirstScanOnly ==
    <<ScanDataSource(Databases[1].id, Databases[1].data_sources[1])>>

\* one ScanDataSource per (binding, data source) pair, in table order
AllScans == ScansFrom(1, 1)

\* sync::sync_all, called on every tick: the scans it will enqueue
sync_all == AllScans

\* the shortest ticker period
MinPeriod == 1

\* spawn_periodic_sync(state, interval_seconds): the task is spawned for any
\* interval, with a ticker of max(interval_seconds, 1) seconds
spawn_periodic_sync(interval_seconds) ==
    [pending |-> <<>>, ticks |-> 0, interval |-> interval_seconds,
     period |-> Max(interval_seconds, MinPeriod)]

\* sync.interval_seconds of the deployment under check
interval_seconds == TickSeconds

\* ticker.tick() fires and sync_all starts; the loop awaits sync_all before
\* the next tick
RescanTick ==
    /\ rescan.pending = <<>> /\ rescan.ticks < MaxTicks /\ Spent < MaxEvents
    /\ rescan' = [rescan EXCEPT !.pending = sync_all,
                                !.ticks = rescan.ticks + 1]
    /\ UNCHANGED <<kind, queue, worker, active, timers, web, resp, store,
                   faults, sent, recvd, clients, codec, secret, call>>

\* one enqueue of the scan loop (enqueue_initial_scan); its result is ignored
RescanEnqueue ==
    /\ rescan.pending # <<>> /\ ~Full
    /\ \E r \in EnqueueResults :
          LET n == sent[<<"rescan", 0>>] + 1 IN
          /\ queue' = Enqueued(queue, Head(rescan.pending), <<"rescan", 0>>,
                               n, -1, r)
          /\ sent' = [sent EXCEPT ![<<"rescan", 0>>] = n]
          /\ faults' = faults + FaultOf(r)
    /\ rescan' = [rescan EXCEPT !.pending = Tail(rescan.pending)]
    /\ UNCHANGED <<kind, worker, active, timers, web, resp, store, recvd,
                   clients, codec, secret, call>>

\* ------------------------------------------------------------------------
\* Webhook ingress: handle_webhook and the tasks it spawns
\* ------------------------------------------------------------------------
DsZ == <<"z">>

\* a JSON value that is present but is not a string
NotAString == <<"#">>

\* Value::as_str: None for a value that is not a string
as_str(v) == IF v = NotAString THEN None ELSE v

\* the secrets of the deployment and of another one
Key1 == <<"k1">>
Key2 == <<"k2">>

Bodies == {"b1", "b2"}

\* Hmac<Sha256> over the raw body, as a table of distinct tags of MacLen bytes
Mac(key, body) ==
    CASE key = Key1 /\ body = "b1" -> <<10>>
      [] key = Key1 /\ body = "b2" -> <<160>>
      [] key = Key2 /\ body = "b1" -> <<170>>
      [] key = Key2 /\ body = "b2" -> <<0>>
      [] OTHER -> <<255>>

HexChars ==
    <<"0", "1", "2", "3", "4", "5", "6", "7", "8", "9",
      "a", "b", "c", "d", "e", "f">>

UpperHexChars == <<"A", "B", "C", "D", "E", "F">>

\* the value of a hex digit of either case, -1 for any other character
HexDigit(c) ==
    IF \E i \in 1..16 : HexChars[i] = c
    THEN (CHOOSE i \in 1..16 : HexChars[i] = c) - 1
    ELSE IF \E i \in 1..6 : UpperHexChars[i] = c
    THEN (CHOOSE i \in 1..6 : UpperHexChars[i] = c) + 9
    ELSE -1

\* hex::decode: an error for an odd length or a character that is no digit
hex_decode(s) ==
    IF Len(s) % 2 = 1 \/ \E i \in 1..Len(s) : HexDigit(s[i]) < 0
    THEN [ok |-> FALSE, bytes |-> <<>>]
    ELSE [ok |-> TRUE,
          bytes |-> [i \in 1..(Len(s) \div 2) |->
                        16 * HexDigit(s[2 * i - 1]) + HexDigit(s[2 * i])]]

\* the lower-case hex text of a byte string, as a sender writes it
HexEncode(bytes) ==
    [i \in 1..(2 * Len(bytes)) |->
        IF i % 2 = 1 THEN HexChars[(bytes[(i + 1) \div 2] \div 16) + 1]
        ELSE HexChars[(bytes[i \div 2] % 16) + 1]]

Sha256Prefix == <<"s", "h", "a", "2", "5", "6", "=">>

\* a byte that HeaderValue::to_str rejects
NonAscii == "~~"

\* str::strip_prefix(..).unwrap_or(..)
strip_prefix(s, prefix) ==
    IF Len(s) >= Len(prefix) /\ SubSeq(s, 1, Len(prefix)) = prefix
    THEN SubSeq(s, Len(prefix) + 1, Len(s))
    ELSE s

\* str::trim: white space at both ends is removed
RECURSIVE trim(_)
trim(s) ==
    IF s = <<>> THEN s
    ELSE IF Head(s) = " " THEN trim(Tail(s))
    ELSE IF s[Len(s)] = " " THEN trim(SubSeq(s, 1, Len(s) - 1))
    ELSE s

\* a comparison that accepts every tag that is a prefix of the code
verify_prefix(mac, tag) ==
    Len(tag) <= Len(mac) /\ SubSeq(mac, 1, Len(tag)) = tag

\* Mac::verify_slice: the tag must be the whole code
verify_slice(mac, tag) == tag = mac

\* verify_signature: Ok(()) is TRUE, every Err is FALSE
verify_signature(headers, body, key) ==
    IF ~headers.present THEN FALSE
    ELSE IF \E i \in 1..Len(headers.value) : headers.value[i] = NonAscii
    THEN FALSE
    ELSE LET signature == strip_prefix(trim(headers.value), Sha256Prefix)
             signature_bytes == hex_decode(signature)
         IN signature_bytes.ok
            /\ verify_slice(Mac(key, body), signature_bytes.bytes)

\* timestamps of the payload: absent, not a string, a string that is not
\* RFC 3339, or a local time with its UTC offset
NoTimestamp == [t |-> "absent", local |-> 0, offset |-> 0]
Timestamp(t, local, offset) == [t |-> t, local |-> local, offset |-> offset]

\* extract_event_time: the instant of a string that parses as RFC 3339
extract_event_time(payload) ==
    IF payload.timestamp.t = "rfc3339"
    THEN [some |-> TRUE, at |-> payload.timestamp.local - payload.timestamp.offset]
    ELSE [some |-> FALSE, at |-> 0]

\* a stale check that drops only events of the past
StaleIfOlder(payload, now) ==
    LET event_time == extract_event_time(payload)
    IN event_time.some /\ now - event_time.at > webhook_max_age_seconds

\* handle_webhook: the event is further than the maximal age from now
Stale(payload, now) ==
    LET event_time == extract_event_time(payload)
        age == IF now >= event_time.at THEN now - event_time.at
               ELSE event_time.at - now
    IN event_time.some /\ age > webhook_max_age_seconds

\* extract_page_id: page_id, else data.id
extract_page_id(payload) ==
    IF as_str(payload.page_id) # None THEN as_str(payload.page_id)
    ELSE as_str(payload.data.id)

\* an extraction that looks at data.data_source_id first
extract_data_source_id_nested_first(payload) ==
    IF as_str(payload.data.data_source_id) # None
    THEN as_str(payload.data.data_source_id)
    ELSE IF as_str(payload.data_source_id) # None
    THEN as_str(payload.data_source_id)
    ELSE as_str(payload.data.parent.data_source_id)

\* extract_data_source_id: data_source_id, else data.data_source_id, else
\* data.parent.data_source_id
extract_data_source_id(payload) ==
    IF as_str(payload.data_source_id) # None THEN as_str(payload.data_source_id)
    ELSE IF as_str(payload.data.data_source_id) # None
    THEN as_str(payload.data.data_source_id)
    ELSE as_str(payload.data.parent.data_source_id)

\* extract_database_id: database_id, else data.database_id, else
\* data.parent.database_id
extract_database_id(payload) ==
    IF as_str(payload.database_id) # None THEN as_str(payload.database_id)
    ELSE IF as_str(payload.data.database_id) # None
    THEN as_str(payload.data.database_id)
    ELSE as_str(payload.data.parent.database_id)

NoHeader == [present |-> FALSE, value |-> <<>>]
Header(value) == [present |-> TRUE, value |-> value]

\* the header a sender that knows the key computes for the body
Signed(key, body) == Header(HexEncode(Mac(key, body)))

NoData == [id |-> None, data_source_id |-> None, database_id |-> None,
           parent |-> [data_source_id |-> None, database_id |-> None]]

\* a request: the raw body and whether it parses as JSON, the signature
\* header, the handler's clock and the members of the parsed payload
Request(json, body, header, token, timestamp, page, ds, db, data) ==
    [json |-> json, body |-> body, header |-> header, now |-> Now,
     verification_token |-> token, timestamp |-> timestamp,
     page_id |-> page, data_source_id |-> ds, database_id |-> db,
     data |-> data]

NoRequest ==
    Request(FALSE, "b1", NoHeader, None, NoTimestamp, None, None, None, NoData)

Fresh == Timestamp("rfc3339", Now, 0)
Old == Timestamp("rfc3339", Now - webhook_max_age_seconds, 1)

Payload(json, token, sig, stale, page, ds, db) ==
    Request(json, "b1",
            IF sig = "ok" THEN Signed(Key1, "b1") ELSE Signed(Key1, "b2"),
            IF token THEN <<"t">> ELSE None,
            IF stale THEN Old ELSE Fresh,
            page, ds, db, NoData)

\* request bodies, described by what the handler reads from them
Payloads ==
    { Payload(FALSE, FALSE, "ok", FALSE, None, None, None),
      Payload(TRUE, TRUE, "bad", FALSE, None, None, None),
      Payload(TRUE, FALSE, "bad", FALSE, PgP, None, None),
      Payload(TRUE, FALSE, "ok", TRUE, PgP, None, None),
      Payload(TRUE, FALSE, "ok", FALSE, PgQ, DsS, DbD),
      Payload(TRUE, FALSE, "ok", FALSE, None, DsS, DbX),
      Payload(TRUE, FALSE, "ok", FALSE, None, DsZ, DbD),
      Payload(TRUE, FALSE, "ok", FALSE, None, None, DbD),
      Payload(TRUE, FALSE, "ok", FALSE, None, None, DbX),
      Payload(TRUE, FALSE, "ok", FALSE, None, None, None) }

\* state.webhook_secret is configured
SecretConfigured == secret # None

\* a lookup that falls back to the first binding
FindDbByDataSourceOrFirst(data_source_id) ==
    LET S == {i \in 1..Len(Databases) :
                \E k \in 1..Len(Databases[i].data_sources) :
                    Databases[i].data_sources[k] = data_source_id}
    IN IF S = {} THEN 1 ELSE CHOOSE i \in S : \A j \in S : i <= j

\* databases.iter().find(|db| db.data_sources.iter().any(|ds| ds.id == id))
FindDbByDataSource(data_source_id) ==
    LET S == {i \in 1..Len(Databases) :
                \E k \in 1..Len(Databases[i].data_sources) :
                    Databases[i].data_sources[k] = data_source_id}
    IN IF S = {} THEN 0 ELSE CHOOSE i \in S : \A j \in S : i <= j

NoTask == [kind |-> "none", sync |-> IdleSync, pending |-> <<>>,
           req |-> NoRequest]

\* sync::scan_data_source: the scan job it enqueues
scan_data_source(database, data_source_id) ==
    <<ScanDataSource(database.id, data_source_id)>>

\* sync::scan_database: one scan job per data source of the binding
scan_database(database) ==
    [k \in 1..Len(database.data_sources) |->
        ScanDataSource(database.id, database.data_sources[k])]

\* handle_webhook after its checks: the first id found decides what is spawned
Dispatched(b) ==
    IF extract_page_id(b) # None
        THEN [status |-> 200,
              task |-> [NoTask EXCEPT !.kind = "page",
                                      !.sync = StartById(extract_page_id(b))]]
    ELSE IF extract_data_source_id(b) # None
        THEN IF FindDbByDataSource(extract_data_source_id(b)) = 0
             THEN [status |-> 200, task |-> NoTask]
             ELSE [status |-> 200,
                   task |-> [NoTask EXCEPT !.kind = "scan",
                       !.pending = scan_data_source(
                           Databases[FindDbByDataSource(extract_data_source_id(b))],
                           extract_data_source_id(b))]]
    ELSE IF extract_database_id(b) # None
        THEN IF FindDb(extract_database_id(b)) = 0
             THEN [status |-> 200, task |-> NoTask]
             ELSE [status |-> 200,
                   task |-> [NoTask EXCEPT !.kind = "scan",
                       !.pending = scan_database(
                           Databases[FindDb(extract_database_id(b))])]]
    ELSE [status |-> 400, task |-> NoTask]

\* a handler that verifies the signature before it looks for the token
HandledSignatureFirst(b) ==
    IF ~b.json THEN [status |-> 400, task |-> NoTask]
    ELSE IF SecretConfigured /\ ~verify_signature(b.header, b.body, secret)
        THEN [status |-> 401, task |-> NoTask]
    ELSE IF as_str(b.verification_token) # None
        THEN [status |-> 200, task |-> NoTask]
    ELSE IF Stale(b, b.now) THEN [status |-> 200, task |-> NoTask]
    ELSE Dispatched(b)

\* the response status and the task spawned by handle_webhook for request b
Handled(b) ==
    IF ~b.json THEN [status |-> 400, task |-> NoTask]
    ELSE IF as_str(b.verification_token) # None
        THEN [status |-> 200, task |-> NoTask]
    ELSE IF SecretConfigured /\ ~verify_signature(b.header, b.body, secret)
        THEN [status |-> 401, task |-> NoTask]
    ELSE IF Stale(b, b.now) THEN [status |-> 200, task |-> NoTask]
    ELSE Dispatched(b)

HandleWebhook(b) ==
    /\ resp.count < MaxWebhooks /\ Spent < MaxEvents
    /\ resp' = [count |-> resp.count + 1, status |-> Handled(b).status]
    /\ web' = [web EXCEPT ![resp.count + 1] = [Handled(b).task EXCEPT !.req = b]]
    /\ UNCHANGED <<kind, queue, worker, active, timers, rescan, store,
                   faults, sent, recvd, clients, codec, secret, call>>

\* an erroneous task that hands a failed page sync to requeue_after
WebSyncRequeued(k) ==
    /\ web[k].kind = "page"
    /\ \E o \in SyncOutcomes(web[k].sync, store, MayFail) :
          /\ store' = o.store
          /\ faults' = faults + o.fault
          /\ timers' = IF o.t.pc = "done" /\ o.t.result = "err"
                       THEN timers \cup
                            {requeue_after(SyncPageById(web[k].sync.page),
                                           RequeueDelay, faults + 1)}
                       ELSE timers
          /\ web' = [web EXCEPT ![k] =
                        IF o.t.pc = "done"
                        THEN [web[k] EXCEPT !.kind = "done", !.sync = o.t]
                        ELSE [web[k] EXCEPT !.sync = o.t]]
    /\ UNCHANGED <<kind, queue, worker, active, rescan, resp, sent,
                   recvd, clients, codec, secret, call>>


\* a step of a page sync spawned by spawn_sync; an error is only logged
WebSync(k) ==
    /\ web[k].kind = "page"
    /\ \E o \in SyncOutcomes(web[k].sync, store, MayFail) :
          /\ store' = o.store
          /\ faults' = faults + o.fault
          /\ web' = [web EXCEPT ![k] =
                        IF o.t.pc = "done"
                        THEN [web[k] EXCEPT !.kind = "done", !.sync = o.t]
                        ELSE [web[k] EXCEPT !.sync = o.t]]
    /\ UNCHANGED <<kind, queue, worker, active, timers, rescan, resp, sent,
                   recvd, clients, codec, secret, call>>

\* an enqueue of a scan task spawned by spawn_sync
WebEnqueue(k) ==
    /\ web[k].kind = "scan" /\ ~Full
    /\ \E r \in EnqueueResults :
          LET n == sent[<<"web", k>>] + 1 IN
          /\ queue' = Enqueued(queue, Head(web[k].pending), <<"web", k>>, n, -1, r)
          /\ sent' = [sent EXCEPT ![<<"web", k>>] = n]
          /\ faults' = faults + FaultOf(r)
    /\ web' = [web EXCEPT ![k] =
                  IF Tail(web[k].pending) = <<>>
                  THEN [web[k] EXCEPT !.kind = "done", !.pending = <<>>]
                  ELSE [web[k] EXCEPT !.pending = Tail(web[k].pending)]]
    /\ UNCHANGED <<kind, worker, active, timers, rescan, resp, store, recvd,
                   clients, codec, secret, call>>

\* ------------------------------------------------------------------------
\* Other users of the queue: another holder of a QueueHandle, or another
\* process that shares the broker list
\* ------------------------------------------------------------------------
ClientJobs == { SyncPageById(PgP), SyncPage(DbX, PgQ), ScanDataSource(DbX, DsS) }

\* a payload that is not a SyncJob
Garbage == <<"{", QUOTE, "SyncPage", QUOTE, ":", "{", "}", "}">>

ClientItems ==
    IF kind = "memory" THEN ClientJobs
    ELSE {Encode(j) : j \in ClientJobs} \cup {Garbage}

ClientEnqueue ==
    /\ clients < MaxClients /\ Spent < MaxEvents /\ ~Full
    /\ \E item \in ClientItems :
          queue' = Push(queue, [item |-> item, prod |-> <<"client", 0>>,
                                n |-> 0, waited |-> -1])
    /\ clients' = clients + 1
    /\ UNCHANGED <<kind, worker, active, timers, rescan, web, resp, store,
                   faults, sent, recvd, codec, secret, call>>

\* ------------------------------------------------------------------------
\* Specification of the service
\* ------------------------------------------------------------------------
\* no NotionClient call is under evaluation
NoCall == [op |-> "none"]

IdleCodec == [pc |-> "idle", job |-> NoJob, payload |-> <<>>, decoded |-> NoJob]

\* init_queue: the broker variant when queue.redis_url is set
init_queue(k) ==
    /\ kind = k
    /\ queue = <<>>
    /\ worker = [IdleWorker EXCEPT !.pc = IF k = "redis" THEN "connect" ELSE "recv"]

Init ==
    /\ \E k \in {"memory", "redis"} : init_queue(k)
    /\ active = 0
    /\ timers = {}
    /\ rescan = spawn_periodic_sync(interval_seconds)
    /\ web = [k \in 1..MaxWebhooks |-> NoTask]
    /\ resp = [count |-> 0, status |-> 0]
    /\ store = {}
    /\ faults = 0
    /\ sent = [p \in Producers |-> 0]
    /\ recvd = [p \in Producers |-> 0]
    /\ clients = 0
    /\ codec = IdleCodec
    /\ secret = Key1
    /\ call = NoCall

Next ==
    \/ WorkerConnect
    \/ WorkerReconnect
    \/ WorkerBlpopFail
    \/ WorkerRecv
    \/ WorkerSync
    \/ WorkerQuery
    \/ WorkerEnqueue
    \/ WorkerWake
    \/ \E t \in timers : RequeueFire(t)
    \/ Tick
    \/ RescanTick
    \/ RescanEnqueue
    \/ \E b \in Payloads : HandleWebhook(b)
    \/ \E k \in 1..MaxWebhooks : WebSync(k)
    \/ \E k \in 1..MaxWebhooks : WebEnqueue(k)
    \/ ClientEnqueue

Spec == Init /\ [][Next]_vars

\* ------------------------------------------------------------------------
\* The service with a fair worker: the runtime runs the worker task
\* whenever its next step is possible
\* ------------------------------------------------------------------------
WorkerFairness == WF_vars(WorkerEnqueue) /\ WF_vars(WorkerWake)

LiveSpec == Spec /\ WorkerFairness

\* ------------------------------------------------------------------------
\* The service from the moment a scan has failed: handle_job has returned,
\* the requeue task of the scan is asleep, and the failures and events
\* counted are those that follow
\* ------------------------------------------------------------------------
AfterFailure(job) ==
    /\ worker = Returned([Dispatch(job) EXCEPT !.spawned = 1], "failed")
    /\ timers = {requeue_after(RequeuedJob(job), RequeueDelay, 0)}

RequeueInit ==
    /\ \E k \in {"memory", "redis"} : kind = k
    /\ queue = <<>>
    /\ \E i \in 1..Len(AllScans) : AfterFailure(AllScans[i])
    /\ active = 0
    /\ rescan = spawn_periodic_sync(interval_seconds)
    /\ web = [k \in 1..MaxWebhooks |-> NoTask]
    /\ resp = [count |-> 0, status |-> 0]
    /\ store = {}
    /\ faults = 0
    /\ sent = [p \in Producers |-> 0]
    /\ recvd = [p \in Producers |-> 0]
    /\ clients = 0
    /\ codec = IdleCodec
    /\ secret = Key1
    /\ call = NoCall

RequeueSpec == RequeueInit /\ [][Next]_vars


\* ------------------------------------------------------------------------
\* The rescanner with the queue and its consumer, for every configured
\* sync.interval_seconds from zero up
\* ------------------------------------------------------------------------
MaxInterval == 1

RescanInit ==
    /\ \E k \in {"memory", "redis"} : init_queue(k)
    /\ active = 0
    /\ timers = {}
    /\ \E i \in 0..MaxInterval : rescan = spawn_periodic_sync(i)
    /\ web = [k \in 1..MaxWebhooks |-> NoTask]
    /\ resp = [count |-> 0, status |-> 0]
    /\ store = {}
    /\ faults = 0
    /\ sent = [p \in Producers |-> 0]
    /\ recvd = [p \in Producers |-> 0]
    /\ clients = 0
    /\ codec = IdleCodec
    /\ secret = Key1
    /\ call = NoCall

RescanNext ==
    \/ WorkerConnect
    \/ WorkerReconnect
    \/ WorkerBlpopFail
    \/ WorkerRecv
    \/ WorkerSync
    \/ WorkerQuery
    \/ WorkerEnqueue
    \/ WorkerWake
    \/ \E t \in timers : RequeueFire(t)
    \/ Tick
    \/ RescanTick
    \/ RescanEnqueue

RescanSpec == RescanInit /\ [][RescanNext]_vars

\* ------------------------------------------------------------------------
\* The webhook handler on its own: one request, drawn from every
\* combination of signature header, body, token, timestamp and ids, for a
\* deployment with any secret or none
\* ------------------------------------------------------------------------
HexAlphabet == {"0", "a", "A", "g"}

HeaderStrings == UNION {[1..n -> HexAlphabet] : n \in 0..MaxHeaderLen}

\* header values as the HTTP server hands them over: no white space at
\* either end
HeaderValues ==
    HeaderStrings
    \cup {Sha256Prefix \o h : h \in HeaderStrings}
    \cup {<<"0", "a", "0">>, <<"0", "a", "0", "a">>, <<"0", "a", NonAscii>>,
          <<"0", " ", "a">>}

Headers == {NoHeader} \cup {Header(h) : h \in HeaderValues}

Tokens == {None, NotAString, <<"t">>}

Timestamps ==
    {NoTimestamp, Timestamp("number", 0, 0), Timestamp("text", 0, 0)}
    \cup {Timestamp("rfc3339", Now + d, o) :
            d \in (0 - webhook_max_age_seconds - 1)..(webhook_max_age_seconds + 1),
            o \in {0, 1}}

\* requests that differ in what the checks before the extraction read
GateRequests ==
    {Request(FALSE, b, h, None, NoTimestamp, PgP, None, None, NoData) :
        b \in Bodies, h \in Headers}
    \cup {Request(TRUE, b, h, tok, ts, pg, None, DbD, NoData) :
            b \in Bodies, h \in Headers, tok \in Tokens, ts \in Timestamps,
            pg \in {None, PgP}}

DataMembers ==
    {[id |-> i, data_source_id |-> s, database_id |-> d,
      parent |-> [data_source_id |-> ps, database_id |-> pd]] :
        i \in {None, PgQ}, s \in {None, DsT}, d \in {None, DbD},
        ps \in {None, DsS}, pd \in {None, DbX}}

\* signed, fresh requests that differ in the ids they carry
IdRequests ==
    {Request(TRUE, "b1", Signed(Key1, "b1"), None, Fresh, pg, ds, db, data) :
        pg \in {None, NotAString, PgP}, ds \in {None, DsS, DsZ},
        db \in {None, DbD, DbX}, data \in DataMembers}

AllRequests == GateRequests \cup IdRequests

HandlerInit ==
    /\ \E k \in {"memory", "redis"} : init_queue(k)
    /\ active = 0
    /\ timers = {}
    /\ rescan = spawn_periodic_sync(interval_seconds)
    /\ web = [k \in 1..MaxWebhooks |-> NoTask]
    /\ resp = [count |-> 0, status |-> 0]
    /\ store = {}
    /\ faults = 0
    /\ sent = [p \in Producers |-> 0]
    /\ recvd = [p \in Producers |-> 0]
    /\ clients = 0
    /\ codec = IdleCodec
    /\ secret \in {None, Key1, Key2}
    /\ call = NoCall

\* the one request of the behaviour
HandleOne == resp.count = 0 /\ \E b \in AllRequests : HandleWebhook(b)

HandlerNext ==
    \/ HandleOne
    \/ \E k \in 1..MaxWebhooks : WebSync(k)
    \/ \E k \in 1..MaxWebhooks : WebEnqueue(k)

HandlerSpec == HandlerInit /\ [][HandlerNext]_vars

\* ------------------------------------------------------------------------
\* The encode/decode round trip on its own, for jobs with arbitrary ids
\* ------------------------------------------------------------------------
CodecChars == {"n", QUOTE, BSLASH, NL}

CodecIds == UNION {[1..k -> CodecChars] : k \in 0..MaxIdLen}

CodecJobs ==
    {SyncPageById(p) : p \in CodecIds}
    \cup {SyncPage(d, p) : d \in CodecIds, p \in CodecIds}
    \cup {ScanDataSource(d, s) : d \in CodecIds, s \in CodecIds}

\* what each job of CodecJobs becomes when it is encoded and decoded
RoundTrip == [j \in CodecJobs |-> Decode(Encode(j))]

CodecInit ==
    /\ init_queue("redis")
    /\ active = 0
    /\ timers = {}
    /\ rescan = spawn_periodic_sync(interval_seconds)
    /\ web = [k \in 1..MaxWebhooks |-> NoTask]
    /\ resp = [count |-> 0, status |-> 0]
    /\ store = {}
    /\ faults = 0
    /\ sent = [p \in Producers |-> 0]
    /\ recvd = [p \in Producers |-> 0]
    /\ clients = 0
    /\ secret = Key1
    /\ call = NoCall
    /\ \E j \in CodecJobs : codec = [IdleCodec EXCEPT !.pc = "job", !.job = j]

\* QueueHandle::enqueue, broker variant: serde_json::to_string(&job)
CodecEncode ==
    /\ codec.pc = "job"
    /\ codec' = [codec EXCEPT !.pc = "encoded", !.payload = Encode(codec.job)]
    /\ UNCHANGED mainVars

\* run_redis_worker: serde_json::from_str(&payload)
CodecDecode ==
    /\ codec.pc = "encoded"
    /\ codec' = [codec EXCEPT !.pc = "decoded", !.decoded = Decode(codec.payload)]
    /\ UNCHANGED mainVars

CodecNext == CodecEncode \/ CodecDecode

CodecSpec == CodecInit /\ [][CodecNext]_vars

\* ------------------------------------------------------------------------
\* NotionClient: cursor pagination and fetch_blocks, each on its own
\* ------------------------------------------------------------------------
\* the upstream side of a paginated listing: the response to a request
\* without a cursor (cursor 0) and to each cursor
Response(ok, results, has_more, next_cursor) ==
    [ok |-> ok, results |-> results, has_more |-> has_more,
     next_cursor |-> next_cursor]

\* a client that asks for the cursor it already has when has_more is set
stay_on_cursor(cursor, next_cursor) == cursor

\* cursor = data.next_cursor
follow_cursor(cursor, next_cursor) == next_cursor

\* fetch_block_children: the loop over the pages of one listing; fuel is
\* the number of requests that are still followed
RECURSIVE fetch_block_children(_, _, _, _, _)
fetch_block_children(server, cursor, blocks, requests, fuel) ==
    IF fuel = 0
    THEN [status |-> "running", value |-> <<>>, requests |-> requests]
    ELSE LET data == server[cursor]
             sent_now == Append(requests, cursor)
         IN IF ~data.ok
            THEN [status |-> "err", value |-> <<>>, requests |-> sent_now]
            ELSE IF data.has_more
            THEN fetch_block_children(server,
                     follow_cursor(cursor, data.next_cursor),
                     blocks \o data.results, sent_now, fuel - 1)
            ELSE [status |-> "ok", value |-> blocks \o data.results,
                  requests |-> sent_now]

\* results.into_iter().map(|page| page.id)
PageIds(results) == [i \in 1..Len(results) |-> results[i].id]

\* query_data_source_page_ids: the loop over the pages of a query
RECURSIVE query_data_source_page_ids(_, _, _, _, _)
query_data_source_page_ids(server, cursor, page_ids, requests, fuel) ==
    IF fuel = 0
    THEN [status |-> "running", value |-> <<>>, requests |-> requests]
    ELSE LET data == server[cursor]
             sent_now == Append(requests, cursor)
         IN IF ~data.ok
            THEN [status |-> "err", value |-> <<>>, requests |-> sent_now]
            ELSE IF data.has_more
            THEN query_data_source_page_ids(server,
                     follow_cursor(cursor, data.next_cursor),
                     page_ids \o PageIds(data.results), sent_now, fuel - 1)
            ELSE [status |-> "ok", value |-> page_ids \o PageIds(data.results),
                  requests |-> sent_now]

\* upstream trees: the blocks 1..n below the root 0, the parent of each,
\* has_children as upstream reports it, and the listings that fail
NodeName == <<"n1", "n2", "n3", "n4", "n5", "n6">>

BlockOf(tree, n) ==
    [id |-> <<NodeName[n]>>, type |-> "paragraph", has_children |-> tree.hc[n]]

NodeOf(id) == CHOOSE n \in 1..Len(NodeName) : NodeName[n] = id[1]

\* Block::children_marker
children_marker(id) ==
    [id |-> id \o <<"::children">>, type |-> "children", has_children |-> FALSE]

RECURSIVE KidsFrom(_, _, _)
KidsFrom(tree, n, k) ==
    IF k > tree.n THEN <<>>
    ELSE IF tree.par[k] = n THEN <<k>> \o KidsFrom(tree, n, k + 1)
    ELSE KidsFrom(tree, n, k + 1)

\* the children of block n (of the root for n = 0) in upstream order
Kids(tree, n) == KidsFrom(tree, n, 1)

\* GET /v1/blocks/{id}/children: the pages of the listing of block n
Listing(tree, n) ==
    LET kids == Kids(tree, n)
        last == IF kids = <<>> THEN 0 ELSE (Len(kids) - 1) \div PageSize
    IN [c \in 0..last |->
          Response(n \notin tree.fail,
                   [i \in 1..(IF c < last THEN PageSize
                              ELSE Len(kids) - c * PageSize) |->
                       BlockOf(tree, kids[c * PageSize + i])],
                   c < last,
                   IF c < last THEN c + 1 ELSE 0)]

\* Vec::insert(index, element), index counted from 0
InsertAt(v, index, element) ==
    SubSeq(v, 1, index) \o <<element>> \o SubSeq(v, index + 1, Len(v))

\* children that keep the budget of their parent
child_depth_unchanged(remaining_depth) == remaining_depth

\* remaining_depth.saturating_sub(1)
child_depth(remaining_depth) ==
    IF remaining_depth > 0 THEN remaining_depth - 1 ELSE 0

\* children inserted in front of the marker
child_position_before_marker(index, offset) == index + 1 + offset

\* the position of the child with this offset: index + 2 + offset
child_position(index, offset) == index + 2 + offset

\* fetch_blocks: the for loop that inserts the children and their depths
RECURSIVE InsertChildren(_, _, _, _, _, _)
InsertChildren(blocks, depths, index, children, offset, depth) ==
    IF offset = Len(children) THEN [blocks |-> blocks, depths |-> depths]
    ELSE InsertChildren(
            InsertAt(blocks, child_position(index, offset), children[offset + 1]),
            InsertAt(depths, child_position(index, offset), depth),
            index, children, offset + 1, depth)

\* fetch_blocks: the while loop over the flat list
RECURSIVE Walk(_, _, _, _, _)
Walk(tree, blocks, depths, index, fetched) ==
    IF ~(index < Len(blocks))
    THEN [status |-> "ok", blocks |-> blocks, fetched |-> fetched]
    ELSE LET remaining_depth == depths[index + 1]
             block == blocks[index + 1]
         IN IF remaining_depth > 0 /\ block.has_children
            THEN LET marker == children_marker(block.id)
                     children == fetch_block_children(
                                    Listing(tree, NodeOf(block.id)), 0, <<>>,
                                    <<>>, tree.n + 1)
                     listed == Append(fetched, block.id)
                     grown == InsertChildren(
                                 InsertAt(blocks, index + 1, marker),
                                 InsertAt(depths, index + 1, 0),
                                 index, children.value, 0,
                                 child_depth(remaining_depth))
                 IN IF children.status # "ok"
                    THEN [status |-> "err", blocks |-> <<>>, fetched |-> listed]
                    ELSE Walk(tree, grown.blocks, grown.depths, index + 1, listed)
            ELSE Walk(tree, blocks, depths, index + 1, fetched)

Root == <<"root">>

\* NotionClient::fetch_blocks(block_id, depth) for the root of the tree
fetch_blocks(tree, depth) ==
    LET blocks == fetch_block_children(Listing(tree, 0), 0, <<>>, <<>>,
                                       tree.n + 1)
    IN IF blocks.status # "ok"
       THEN [status |-> "err", blocks |-> <<>>, fetched |-> <<Root>>]
       ELSE IF depth = 0
       THEN [status |-> "ok", blocks |-> blocks.value, fetched |-> <<Root>>]
       ELSE Walk(tree, blocks.value, [i \in 1..Len(blocks.value) |-> depth],
                 0, <<Root>>)

Trees(max) ==
    UNION {{[n |-> n, par |-> par, hc |-> hc, fail |-> fail] :
              par \in {f \in [1..n -> 0..(n - 1)] : \A k \in 1..n : f[k] < k},
              hc \in [1..n -> BOOLEAN],
              fail \in {{}} \cup {{k} : k \in 0..n}} : n \in 0..max}

FetchInit ==
    /\ init_queue("memory")
    /\ active = 0
    /\ timers = {}
    /\ rescan = spawn_periodic_sync(interval_seconds)
    /\ web = [k \in 1..MaxWebhooks |-> NoTask]
    /\ resp = [count |-> 0, status |-> 0]
    /\ store = {}
    /\ faults = 0
    /\ sent = [p \in Producers |-> 0]
    /\ recvd = [p \in Producers |-> 0]
    /\ clients = 0
    /\ codec = IdleCodec
    /\ secret = Key1
    /\ \E tree \in Trees(MaxBlocks), depth \in 0..MaxDepth :
          call = [op |-> "fetch_blocks", pc |-> "called", tree |-> tree,
                  depth |-> depth]

\* the call returns
FetchReturn ==
    /\ call.op = "fetch_blocks" /\ call.pc = "called"
    /\ call' = [op |-> "fetch_blocks", pc |-> "returned", tree |-> call.tree,
                depth |-> call.depth,
                result |-> fetch_blocks(call.tree, call.depth)]
    /\ UNCHANGED <<kind, queue, worker, active, timers, rescan, web, resp,
                   store, faults, sent, recvd, clients, codec, secret>>

FetchNext == FetchReturn

FetchSpec == FetchInit /\ [][FetchNext]_vars

\* the results upstream has behind each cursor
ResultsAt(c) ==
    CASE c = 0 -> <<[id |-> <<"a">>], [id |-> <<"b">>]>>
      [] c = 1 -> <<[id |-> <<"c">>]>>
      [] c = 2 -> <<>>
      [] OTHER -> <<[id |-> <<"d">>]>>

\* what upstream decides for a page besides its results
Shapes == [ok : BOOLEAN, has_more : BOOLEAN, next_cursor : 0..MaxCursor]

\* every upstream, also one that sets has_more without a cursor or that
\* sends the client back to a page it has seen
Servers ==
    {[c \in 0..MaxCursor |->
         Response(f[c].ok, ResultsAt(c), f[c].has_more, f[c].next_cursor)] :
       f \in [0..MaxCursor -> Shapes]}

PageInit ==
    /\ init_queue("memory")
    /\ active = 0
    /\ timers = {}
    /\ rescan = spawn_periodic_sync(interval_seconds)
    /\ web = [k \in 1..MaxWebhooks |-> NoTask]
    /\ resp = [count |-> 0, status |-> 0]
    /\ store = {}
    /\ faults = 0
    /\ sent = [p \in Producers |-> 0]
    /\ recvd = [p \in Producers |-> 0]
    /\ clients = 0
    /\ codec = IdleCodec
    /\ secret = Key1
    /\ \E server \in Servers,
          op \in {"fetch_block_children", "query_data_source_page_ids"} :
          call = [op |-> op, pc |-> "called", server |-> server]

\* fetch_block_children returns, or is still running after MaxRequests
PageChildren ==
    /\ call.op = "fetch_block_children" /\ call.pc = "called"
    /\ call' = [op |-> call.op, pc |-> "returned", server |-> call.server,
                result |-> fetch_block_children(call.server, 0, <<>>, <<>>,
                                                MaxRequests)]
    /\ UNCHANGED <<kind, queue, worker, active, timers, rescan, web, resp,
                   store, faults, sent, recvd, clients, codec, secret>>

\* query_data_source_page_ids returns, or is still running
PageQuery ==
    /\ call.op = "query_data_source_page_ids" /\ call.pc = "called"
    /\ call' = [op |-> call.op, pc |-> "returned", server |-> call.server,
                result |-> query_data_source_page_ids(call.server, 0, <<>>,
                                                      <<>>, MaxRequests)]
    /\ UNCHANGED <<kind, queue, worker, active, timers, rescan, web, resp,
                   store, faults, sent, recvd, clients, codec, secret>>

PageNext == PageChildren \/ PageQuery

PageSpec == PageInit /\ [][PageNext]_vars

\* ------------------------------------------------------------------------
\* sync_page and sync_blobs step by step, as process_job runs them for one
\* SyncPage job, with every request to upstream hosts and to the store
\* written to a log
\* ------------------------------------------------------------------------
MaxBlobRefs == 3

BlobPaths == {<<"blobs", "a">>, <<"blobs", "b">>, <<"blobs", "c">>}

BlobUrls == {"u1", "u2"}

\* render::BlobRef
BlobRefs == [path : BlobPaths, url : BlobUrls]

\* the blob lists a rendering can carry: any order, repeated paths included
RenderedBlobs(max) == UNION {[1..n -> BlobRefs] : n \in 0..max}

\* the rendered Markdown and the bytes a download yields
Markdown == <<"markdown">>
BytesOf(url) == <<"bytes", url>>

\* log entries: a request sent with what came back, an object written
Get(path, url, outcome) ==
    [ev |-> "get", path |-> path, url |-> url, outcome |-> outcome]
Written(path, body) == [ev |-> "write", path |-> path, body |-> body]

\* an erroneous order of sync_page: the blobs come first and the document
\* is never written
step_after_blobs_first(pc) ==
    CASE pc = "fetch" -> "blobs"
      [] pc = "write" -> "blobs"
      [] OTHER -> "done"

\* the order of sync_page: fetch_blocks, op.write of the document, sync_blobs
step_after(pc) ==
    CASE pc = "fetch" -> "write"
      [] pc = "write" -> "blobs"
      [] OTHER -> "done"

\* an erroneous insert that forgets the path
seen_forget(seen, path) == seen

\* seen.insert(blob.path.clone())
seen_insert(seen, path) == seen \cup {path}

\* `?`: the call returns the error at once
Failed(c) == [c EXCEPT !.pc = "done", !.result = "err"]

SyncPageInit ==
    /\ init_queue("memory")
    /\ active = 0
    /\ timers = {}
    /\ rescan = spawn_periodic_sync(interval_seconds)
    /\ web = [k \in 1..MaxWebhooks |-> NoTask]
    /\ resp = [count |-> 0, status |-> 0]
    /\ store = {}
    /\ faults = 0
    /\ sent = [p \in Producers |-> 0]
    /\ recvd = [p \in Producers |-> 0]
    /\ clients = 0
    /\ codec = IdleCodec
    /\ secret = Key1
    /\ \E page_id \in {PgP, PgQ} :
          call = [op |-> "sync_page", pc |-> "fetch",
                  job |-> SyncPage(DbD, page_id), db |-> DbD,
                  page |-> page_id, blobs |-> <<>>, rest |-> <<>>,
                  seen |-> {}, log |-> <<>>, result |-> "none"]

\* fetch_blocks and render_blocks: the rendering carries some blob list
SyncPageFetch ==
    /\ call.op = "sync_page" /\ call.pc = "fetch"
    /\ \/ \E bl \in RenderedBlobs(MaxBlobRefs) :
             call' = [call EXCEPT !.pc = step_after("fetch"), !.blobs = bl,
                                  !.rest = bl]
       \/ call' = Failed(call)
    /\ UNCHANGED <<kind, queue, worker, active, timers, rescan, web, resp,
                   store, faults, sent, recvd, clients, codec, secret>>

\* database.op.write(&page_path, rendered.markdown)
SyncPageWrite ==
    /\ call.op = "sync_page" /\ call.pc = "write"
    /\ \/ /\ call' = [call EXCEPT
                        !.pc = step_after("write"),
                        !.log = Append(call.log,
                                       Written(PagePath(call.page), Markdown))]
          /\ store' = store \cup {<<call.db, PagePath(call.page)>>}
       \/ /\ call' = Failed(call)
          /\ UNCHANGED store
    /\ UNCHANGED <<kind, queue, worker, active, timers, rescan, web, resp,
                   faults, sent, recvd, clients, codec, secret>>

\* sync_blobs, head of the loop: a path already seen is skipped, a new one
\* is inserted and its download starts; after the last blob Ok(()) returns
SyncBlobsNext ==
    /\ call.op = "sync_page" /\ call.pc = "blobs"
    /\ LET rest == SkipSeen(call.rest, call.seen) IN
       call' = IF rest = <<>>
               THEN [call EXCEPT !.pc = step_after("blobs"), !.rest = <<>>,
                                 !.result = "ok"]
               ELSE [call EXCEPT !.pc = "get", !.rest = rest,
                        !.seen = seen_insert(call.seen, Head(rest).path)]
    /\ UNCHANGED <<kind, queue, worker, active, timers, rescan, web, resp,
                   store, faults, sent, recvd, clients, codec, secret>>

\* state.http.get(&blob.url).send(), the status test and response.bytes()
SyncBlobsGet ==
    /\ call.op = "sync_page" /\ call.pc = "get"
    /\ LET blob == Head(call.rest)
       IN \E outcome \in {"2xx", "non-2xx", "error"} :
             LET got == [call EXCEPT !.log =
                           Append(call.log, Get(blob.path, blob.url, outcome))]
             IN call' = IF outcome = "2xx" THEN [got EXCEPT !.pc = "put"]
                        ELSE Failed(got)
    /\ UNCHANGED <<kind, queue, worker, active, timers, rescan, web, resp,
                   store, faults, sent, recvd, clients, codec, secret>>

\* database.op.write(&blob.path, bytes.to_vec())
SyncBlobsPut ==
    /\ call.op = "sync_page" /\ call.pc = "put"
    /\ LET blob == Head(call.rest) IN
       \/ /\ call' = [call EXCEPT
                        !.pc = "blobs", !.rest = Tail(call.rest),
                        !.log = Append(call.log,
                                       Written(blob.path, BytesOf(blob.url)))]
          /\ store' = store \cup {<<call.db, blob.path>>}
       \/ /\ call' = Failed(call)
          /\ UNCHANGED store
    /\ UNCHANGED <<kind, queue, worker, active, timers, rescan, web, resp,
                   faults, sent, recvd, clients, codec, secret>>

\* process_job, SyncPage: on Err the job goes to requeue_after
SyncPageReturn ==
    /\ call.op = "sync_page" /\ call.pc = "done"
    /\ call' = [call EXCEPT !.pc = "returned"]
    /\ timers' = IF call.result = "err"
                 THEN timers \cup {requeue_after(RequeuedJob(call.job),
                                                 RequeueDelay, 1)}
                 ELSE timers
    /\ UNCHANGED <<kind, queue, worker, active, rescan, web, resp, store,
                   faults, sent, recvd, clients, codec, secret>>

SyncPageNext ==
    \/ SyncPageFetch
    \/ SyncPageWrite
    \/ SyncBlobsNext
    \/ SyncBlobsGet
    \/ SyncBlobsPut
    \/ SyncPageReturn

SyncPageSpec == SyncPageInit /\ [][SyncPageNext]_vars

\* ------------------------------------------------------------------------
\* sync_page over an upstream tree: fetch_blocks walks the tree, any of
\* its listings may fail, and the binding's store may hold the objects of
\* an earlier sync of the page
\* ------------------------------------------------------------------------
MaxSyncBlocks == 3

\* what an earlier sync of the page left in the store
EarlierSync(database_id, page_id) ==
    {<<database_id, PagePath(page_id)>>, <<database_id, <<"blobs", "a">>>>}

\* the blob lists of the renderings here
SyncedBlobs ==
    {<<>>,
     <<[path |-> <<"blobs", "a">>, url |-> "u1"]>>,
     <<[path |-> <<"blobs", "a">>, url |-> "u1"],
       [path |-> <<"blobs", "b">>, url |-> "u2"]>>}

SyncTreeInit ==
    /\ init_queue("memory")
    /\ active = 0
    /\ timers = {}
    /\ rescan = spawn_periodic_sync(interval_seconds)
    /\ web = [k \in 1..MaxWebhooks |-> NoTask]
    /\ resp = [count |-> 0, status |-> 0]
    /\ store \in {{}, EarlierSync(DbD, PgP)}
    /\ faults = 0
    /\ sent = [p \in Producers |-> 0]
    /\ recvd = [p \in Producers |-> 0]
    /\ clients = 0
    /\ codec = IdleCodec
    /\ secret = Key1
    /\ \E tree \in Trees(MaxSyncBlocks), depth \in 0..MaxDepth :
          call = [op |-> "sync_page", pc |-> "fetch_blocks",
                  job |-> SyncPage(DbD, PgP), db |-> DbD,
                  page |-> PgP, blobs |-> <<>>, rest |-> <<>>,
                  seen |-> {}, log |-> <<>>, result |-> "none",
                  tree |-> tree, depth |-> depth, before |-> store]

\* an erroneous sync_page that goes on to the write when fetch_blocks fails
fetch_outcome_ignored(result) == "ok"

\* state.notion.fetch_blocks(page_id, state.max_depth).await ... ?
fetch_outcome(result) == result.status

\* sync_page: fetch_blocks over the tree, then render_blocks
SyncPageFetchBlocks ==
    /\ call.op = "sync_page" /\ call.pc = "fetch_blocks"
    /\ IF fetch_outcome(fetch_blocks(call.tree, call.depth)) = "ok"
       THEN \E bl \in SyncedBlobs :
               call' = [call EXCEPT !.pc = step_after("fetch"), !.blobs = bl,
                                    !.rest = bl]
       ELSE call' = Failed(call)
    /\ UNCHANGED <<kind, queue, worker, active, timers, rescan, web, resp,
                   store, faults, sent, recvd, clients, codec, secret>>

SyncTreeNext ==
    \/ SyncPageFetchBlocks
    \/ SyncPageWrite
    \/ SyncBlobsNext
    \/ SyncBlobsGet
    \/ SyncBlobsPut
    \/ SyncPageReturn

SyncTreeSpec == SyncTreeInit /\ [][SyncTreeNext]_vars

\* ------------------------------------------------------------------------
\* Renderer: render_page, front matter
\* ------------------------------------------------------------------------
NotionKey == <<"_", "n", "o", "t", "i", "o", "n">>

\* the characters of the names below, in byte order
ByteOrder == <<"A", "_", "a", "b", "i", "n", "o", "t">>

Ord(c) == CHOOSE i \in 1..Len(ByteOrder) : ByteOrder[i] = c

\* String's Ord: byte-wise, a proper prefix first
RECURSIVE LexLess(_, _)
LexLess(s, t) ==
    IF t = <<>> THEN FALSE
    ELSE IF s = <<>> THEN TRUE
    ELSE IF Head(s) = Head(t) THEN LexLess(Tail(s), Tail(t))
    ELSE Ord(Head(s)) < Ord(Head(t))

\* the keys of a BTreeMap in iteration order
RECURSIVE Ascending(_)
Ascending(names) ==
    IF names = {} THEN <<>>
    ELSE LET least == CHOOSE n \in names :
                         \A m \in names \ {n} : LexLess(n, m)
         IN <<least>> \o Ascending(names \ {least})

\* PropertyValue
TextValue(value) == [kind |-> "Text", value |-> value]
ListValue(values) == [kind |-> "List", values |-> values]

\* serde_yaml::Value
YamlString(s) == [yaml |-> "String", s |-> s]
YamlSequence(items) == [yaml |-> "Sequence", items |-> items]
YamlMapping(entries) == [yaml |-> "Mapping", entries |-> entries]

\* Mapping::new()
EmptyMapping == <<>>

\* the position of a key in a mapping, 0 when absent
IndexOf(m, key) ==
    LET S == {i \in 1..Len(m) : m[i].key = key}
    IN IF S = {} THEN 0 ELSE CHOOSE i \in S : TRUE

\* Mapping::insert: a new key goes to the end; for a key that is present
\* the value is replaced and the key keeps its place
insert(m, key, value) ==
    IF IndexOf(m, key) = 0 THEN Append(m, [key |-> key, value |-> value])
    ELSE [m EXCEPT ![IndexOf(m, key)].value = value]

\* no property_includes configured
NoIncludes == [present |-> FALSE, set |-> {}]

\* key_map.get(key).map(|v| v.as_str()).unwrap_or(key)
mapped_key(key_map, key) ==
    IF key \in DOMAIN key_map THEN key_map[key] ELSE key

\* the YAML value of a property value
yaml_value(value) ==
    IF value.kind = "Text" THEN YamlString(value.value)
    ELSE YamlSequence([i \in 1..Len(value.values) |->
                          YamlString(value.values[i])])

\* the loop over metadata.properties, from the keys still to visit
RECURSIVE insert_properties(_, _, _, _, _)
insert_properties(front_matter, keys, properties, key_map, property_includes) ==
    IF keys = <<>> THEN front_matter
    ELSE LET key == Head(keys)
             skip == \/ property_includes.present
                        /\ key \notin property_includes.set
                     \/ mapped_key(key_map, key) = <<>>
         IN insert_properties(
                IF skip THEN front_matter
                ELSE insert(front_matter, mapped_key(key_map, key),
                            yaml_value(properties[key])),
                Tail(keys), properties, key_map, property_includes)

\* the _notion mapping: page_id, and database_id when the parent has one
notion_meta(metadata) ==
    LET m == insert(EmptyMapping, <<"page_id">>, YamlString(metadata.id))
    IN IF metadata.parent.database_id # None
       THEN insert(m, <<"database_id">>,
                   YamlString(metadata.parent.database_id))
       ELSE m

\* the front matter mapping that render_page hands to serde_yaml
front_matter(metadata, key_map, property_includes) ==
    insert_properties(
        insert(EmptyMapping, NotionKey, YamlMapping(notion_meta(metadata))),
        Ascending(DOMAIN metadata.properties), metadata.properties,
        key_map, property_includes)

\* ------------------------------------------------------------------------
\* Renderer: render_page, the loop over the blocks
\* ------------------------------------------------------------------------
NewLine == "\n"

Digits == <<"0", "1", "2", "3", "4", "5", "6", "7", "8", "9">>

\* format!("{}", n) for a usize
RECURSIVE Decimal(_)
Decimal(n) ==
    IF n < 10 THEN <<Digits[n + 1]>>
    ELSE Decimal(n \div 10) \o <<Digits[(n % 10) + 1]>>

\* [String]::join(sep)
RECURSIVE Join(_, _)
Join(parts, sep) ==
    IF parts = <<>> THEN <<>>
    ELSE IF Len(parts) = 1 THEN parts[1]
    ELSE parts[1] \o sep \o Join(Tail(parts), sep)

\* the grave accent, one character of the output
BackTick == "GRAVE"

\* RichText without annotations and without href
Plain(text) ==
    [plain_text |-> text, annotated |-> FALSE, code |-> FALSE,
     bold |-> FALSE, italic |-> FALSE, strikethrough |-> FALSE,
     underline |-> FALSE, href |-> None]

\* an erroneous order: the href wraps the plain text before the styles
render_rich_text_item_href_first(item) ==
    LET t0 == IF item.href # None
              THEN <<"[">> \o item.plain_text \o <<"]", "(">> \o item.href
                   \o <<")">>
              ELSE item.plain_text
        t1 == IF item.bold THEN <<"*", "*">> \o t0 \o <<"*", "*">> ELSE t0
        t2 == IF item.italic THEN <<"*">> \o t1 \o <<"*">> ELSE t1
        t3 == IF item.strikethrough
              THEN <<"~", "~">> \o t2 \o <<"~", "~">> ELSE t2
        t4 == IF item.underline
              THEN <<"<", "u", ">">> \o t3 \o <<"<", "/", "u", ">">> ELSE t3
    IN IF ~item.annotated THEN t0
       ELSE IF item.code THEN <<BackTick>> \o t0 \o <<BackTick>>
       ELSE t4

render_rich_text_item(item) ==
    LET t0 == item.plain_text
        t1 == IF item.bold THEN <<"*", "*">> \o t0 \o <<"*", "*">> ELSE t0
        t2 == IF item.italic THEN <<"*">> \o t1 \o <<"*">> ELSE t1
        t3 == IF item.strikethrough
              THEN <<"~", "~">> \o t2 \o <<"~", "~">> ELSE t2
        t4 == IF item.underline
              THEN <<"<", "u", ">">> \o t3 \o <<"<", "/", "u", ">">> ELSE t3
        styled == IF ~item.annotated THEN t0
                  ELSE IF item.code THEN <<BackTick>> \o t0 \o <<BackTick>>
                  ELSE t4
    IN IF item.href # None
       THEN <<"[">> \o styled \o <<"]", "(">> \o item.href \o <<")">>
       ELSE styled

render_rich_text_vec(rich_text) ==
    Join([i \in 1..Len(rich_text) |-> render_rich_text_item(rich_text[i])],
         <<>>)

\* table_state: None, or Some(TableState::new(width, column, row))
NoTable ==
    [open |-> FALSE, rows |-> <<>>, width |-> 0,
     has_column_header |-> FALSE, has_row_header |-> FALSE]

TableState(width, has_column_header, has_row_header) ==
    [open |-> TRUE, rows |-> <<>>, width |-> width,
     has_column_header |-> has_column_header,
     has_row_header |-> has_row_header]

\* the longest row
RECURSIVE LongestRow(_)
LongestRow(rows) ==
    IF rows = <<>> THEN 0 ELSE Max(Len(Head(rows)), LongestRow(Tail(rows)))

\* an erroneous width: the declared width whatever the rows
table_width_declared(state) == state.width

\* flush_table: rows.map(len).max().unwrap_or(state.width).max(state.width)
table_width(state) == Max(LongestRow(state.rows), state.width)

\* while row.len() < width { row.push(String::new()) }
padded(row, width) ==
    row \o [i \in 1..(width - Len(row)) |-> <<>>]

\* the header cells: row 0 or blanks, an empty cell printed as one space
table_header(state) ==
    LET width == table_width(state)
        header == IF state.has_column_header
                  THEN padded(state.rows[1], width)
                  ELSE [i \in 1..width |-> <<>>]
    IN [i \in 1..Len(header) |->
           IF header[i] = <<>> THEN <<" ">> ELSE header[i]]

table_separator(state) == [i \in 1..table_width(state) |-> <<"-", "-", "-">>]

\* the cells of a body row: the first in ** when has_row_header
row_cells(state, row) ==
    LET cells == padded(row, table_width(state))
    IN IF state.has_row_header /\ cells # <<>>
       THEN [cells EXCEPT ![1] = <<"*", "*">> \o cells[1] \o <<"*", "*">>]
       ELSE cells

\* the body rows: the rows after body_start
table_body(state) ==
    LET body_start == IF state.has_column_header THEN 1 ELSE 0
    IN [i \in 1..(Len(state.rows) - body_start) |->
           row_cells(state, state.rows[i + body_start])]

\* flush_table for Some(state) with rows: the lines it will print
table_lines(state) ==
    [width |-> table_width(state), header |-> table_header(state),
     separator |-> table_separator(state), body |-> table_body(state)]

\* one line of the table: a bar, the cells joined by space bar space, then
\* space, bar and a line feed
table_line(cells) ==
    <<"|">> \o Join(cells, <<" ", "|", " ">>) \o <<" ", "|", NewLine>>

table_text(lines) ==
    table_line(lines.header) \o table_line(lines.separator)
    \o Join([i \in 1..Len(lines.body) |-> table_line(lines.body[i])], <<>>)
    \o <<NewLine>>

\* flush_table(&mut out, state): what is pushed to out
flush_table(state) ==
    IF ~state.open \/ state.rows = <<>> THEN <<>>
    ELSE table_text(table_lines(state))

\* ------------------------------------------------------------------------
\* Renderer: blob paths
\* ------------------------------------------------------------------------
\* Option<String>
Absent == [some |-> FALSE, value |-> <<>>]
Some(value) == [some |-> TRUE, value |-> value]

\* the letters that have an upper case here, and their lower case
UpperCase == <<"J", "N", "P">>
LowerCase == <<"j", "n", "p">>

\* str::to_lowercase
to_lowercase(s) ==
    [i \in 1..Len(s) |->
        IF \E k \in 1..Len(UpperCase) : UpperCase[k] = s[i]
        THEN LowerCase[CHOOSE k \in 1..Len(UpperCase) : UpperCase[k] = s[i]]
        ELSE s[i]]

\* the places of a character in a text
Positions(s, c) == {i \in 1..Len(s) : s[i] = c}

\* s.split(c).next(): the text before the first c, all of it without one
before_first(s, c) ==
    IF Positions(s, c) = {} THEN s
    ELSE SubSeq(s, 1, (CHOOSE i \in Positions(s, c) :
                          \A k \in Positions(s, c) : i <= k) - 1)

\* s.rsplit(c).next(): the text after the last c, all of it without one
after_last(s, c) ==
    IF Positions(s, c) = {} THEN s
    ELSE SubSeq(s, (CHOOSE i \in Positions(s, c) :
                       \A k \in Positions(s, c) : k <= i) + 1, Len(s))

\* trim, rsplit_once('.'), None for no dot or an empty suffix
extract_extension_from_name(name) ==
    LET trimmed == trim(name)
        ext == after_last(trimmed, ".")
    IN IF Positions(trimmed, ".") = {} \/ ext = <<>> THEN Absent
       ELSE Some(to_lowercase(ext))

\* the query, then the fragment are cut off; the file name is the text
\* after the last slash
extract_extension_from_url(url) ==
    LET without_query == before_first(url, "?")
        without_fragment == before_first(without_query, "#")
        filename == after_last(without_fragment, "/")
    IN extract_extension_from_name(filename)

build_blob_path(block_id, name, url) ==
    LET from_name == IF name.some THEN extract_extension_from_name(name.value)
                     ELSE Absent
        from_url == IF from_name.some THEN from_name
                    ELSE IF url.some THEN extract_extension_from_url(url.value)
                    ELSE Absent
        ext == IF from_url.some THEN from_url.value ELSE <<"b", "i", "n">>
    IN <<"b", "l", "o", "b", "s", "/">> \o block_id \o <<".">> \o ext

format_blob_link(path) == <<".", ".", "/">> \o path

\* file.url, or else external.url
container_url(container) ==
    IF container.file.some THEN container.file ELSE container.external

\* the block types rendered by render_file_link
FileTypes == {"file", "pdf", "video", "audio"}

FileLabel == <<"F", "i", "l", "e">>

\* render_file_link(block.<type>.as_ref(), &block.id)
render_file_link(block) ==
    IF ~block.payload \/ ~container_url(block.media).some
    THEN [some |-> FALSE, label |-> <<>>, url |-> <<>>, path |-> <<>>]
    ELSE [some |-> TRUE,
          label |-> IF block.media.name.some THEN block.media.name.value
                    ELSE FileLabel,
          url |-> container_url(block.media).value,
          path |-> build_blob_path(block.id, block.media.name,
                                   container_url(block.media))]

\* the BlobRef a block pushes, if any
block_blobs(block) ==
    CASE block.block_type = "image" /\ block.payload
         /\ container_url(block.media).some ->
            <<[path |-> build_blob_path(block.id, Absent,
                                        container_url(block.media)),
               url |-> container_url(block.media).value]>>
      [] block.block_type \in FileTypes /\ render_file_link(block).some ->
            <<[path |-> render_file_link(block).path,
               url |-> render_file_link(block).url]>>
      [] OTHER -> <<>>

\* the state of the loop before the first block
RenderStart ==
    [out |-> <<>>, numbering |-> 1, table_state |-> NoTable,
     blobs |-> <<>>, trace |-> <<>>, tables |-> <<>>]

\* an erroneous test that lets a children marker close the table too
closes_table_on_marker(block_type) == block_type # "table_row"

\* the block types with an arm of their own in the match of render_page
KnownKinds ==
    {"paragraph", "heading_1", "heading_2", "heading_3",
     "bulleted_list_item", "numbered_list_item", "to_do", "quote", "code",
     "callout", "divider", "image", "bookmark", "toggle", "equation",
     "child_page", "child_database", "table", "table_row", "file", "pdf",
     "video", "audio", "embed", "link_to_page", "children"}

\* an erroneous test that passes over the types without an arm
closes_table_known_only(block_type) ==
    /\ block_type \in KnownKinds
    /\ block_type # "table_row" /\ block_type # "children"

\* the block types that make render_page flush an open table
closes_table(block_type) ==
    block_type # "table_row" /\ block_type # "children"

\* an erroneous reset that keeps counting across other blocks
numbering_after_kept(numbering, block_type, counted) ==
    IF counted THEN numbering + 1 ELSE numbering

\* numbering after a block: counted up by a numbered item that was
\* printed, back to 1 after every block of another type
numbering_after(numbering, block_type, counted) ==
    IF block_type # "numbered_list_item" THEN 1
    ELSE IF counted THEN numbering + 1 ELSE numbering

\* the match on block.block_type: the text that the block itself pushes
block_text(block, numbering) ==
    LET text == render_rich_text_vec(block.rich_text)
    IN CASE block.block_type = "paragraph" /\ block.payload ->
               text \o <<NewLine, NewLine>>
         [] block.block_type = "heading_1" /\ block.payload ->
               <<"#", " ">> \o text \o <<NewLine, NewLine>>
         [] block.block_type = "bulleted_list_item" /\ block.payload ->
               <<"-", " ">> \o text \o <<NewLine>>
         [] block.block_type = "numbered_list_item" /\ block.payload ->
               Decimal(numbering) \o <<".", " ">> \o text \o <<NewLine>>
         [] block.block_type = "heading_2" /\ block.payload ->
               <<"#", "#", " ">> \o text \o <<NewLine, NewLine>>
         [] block.block_type = "heading_3" /\ block.payload ->
               <<"#", "#", "#", " ">> \o text \o <<NewLine, NewLine>>
         [] block.block_type = "quote" /\ block.payload ->
               <<">", " ">> \o text \o <<NewLine, NewLine>>
         [] block.block_type = "divider" ->
               <<"-", "-", "-", NewLine, NewLine>>
         [] block.block_type = "image" /\ block_blobs(block) # <<>> ->
               <<"!", "[", "]", "(">>
               \o format_blob_link(block_blobs(block)[1].path)
               \o <<")", NewLine, NewLine>>
         [] block.block_type \in FileTypes /\ render_file_link(block).some ->
               <<"[">> \o render_file_link(block).label \o <<"]", "(">>
               \o format_blob_link(render_file_link(block).path)
               \o <<")", NewLine, NewLine>>
         [] block.block_type = "children" -> <<NewLine>>
         [] OTHER -> <<>>

\* the match on block.block_type: the table buffer after the block
table_after(block, table_state) ==
    CASE block.block_type = "table" /\ block.payload ->
            TableState(block.table.table_width,
                       block.table.has_column_header,
                       block.table.has_row_header)
      [] block.block_type = "table_row" /\ block.payload /\ table_state.open ->
            [table_state EXCEPT !.rows =
                Append(table_state.rows,
                       [i \in 1..Len(block.cells) |->
                           render_rich_text_vec(block.cells[i])])]
      [] OTHER -> table_state

\* one iteration of the loop over the blocks
render_block(s, block) ==
    LET closing == s.table_state.open /\ closes_table(block.block_type)
        flushed == IF closing THEN flush_table(s.table_state) ELSE <<>>
        before == IF closing THEN NoTable ELSE s.table_state
        text == block_text(block, s.numbering)
        counted == block.block_type = "numbered_list_item" /\ block.payload
    IN [out |-> s.out \o flushed \o text,
        numbering |-> numbering_after(s.numbering, block.block_type, counted),
        table_state |-> table_after(block, before),
        blobs |-> s.blobs \o block_blobs(block),
        trace |-> Append(s.trace,
                     [closed |-> closing, flushed |-> flushed, text |-> text,
                      open |-> table_after(block, before).open,
                      rows |-> table_after(block, before).rows]),
        tables |-> IF closing /\ s.table_state.rows # <<>>
                   THEN Append(s.tables, table_lines(s.table_state))
                   ELSE s.tables]

RECURSIVE render_blocks(_, _)
render_blocks(s, blocks) ==
    IF blocks = <<>> THEN s
    ELSE render_blocks(render_block(s, Head(blocks)), Tail(blocks))

\* the flush after the loop
render_end(s) ==
    [out |-> s.out \o flush_table(s.table_state), blobs |-> s.blobs,
     trace |-> s.trace,
     end_closed |-> s.table_state.open,
     end_flushed |-> flush_table(s.table_state),
     tables |-> IF s.table_state.open /\ s.table_state.rows # <<>>
                THEN Append(s.tables, table_lines(s.table_state))
                ELSE s.tables]

\* render_page: the front matter mapping, the text after it, the blobs
render_page(metadata, blocks, key_map, property_includes) ==
    LET body == render_end(render_blocks(RenderStart, blocks))
    IN [front_matter |-> front_matter(metadata, key_map, property_includes),
        markdown |-> body.out, blobs |-> body.blobs, trace |-> body.trace,
        end_closed |-> body.end_closed, end_flushed |-> body.end_flushed,
        tables |-> body.tables]

\* ------------------------------------------------------------------------
\* render_page on its own: every page metadata, key map and include set
\* over a few property names, and every short list of blocks
\* ------------------------------------------------------------------------
MaxRenderBlocks == 3

\* upstream property names: one of them is the reserved key
PropNames == {<<"A">>, <<"a">>, NotionKey}

\* what upstream holds under each name
UpstreamValue(name) ==
    IF name = <<"a">> THEN ListValue(<<<<"a">>, <<"b">>>>)
    ELSE TextValue(name \o <<"t">>)

\* the keys a key map can give: the empty string suppresses the property
MappedKeys == {<<>>, <<"a">>, NotionKey}

Metadatas ==
    {[id |-> PgP, parent |-> [database_id |-> database_id],
      properties |-> [name \in S |-> UpstreamValue(name)]] :
        database_id \in {None, DbD}, S \in SUBSET PropNames}

KeyMaps == UNION {[S -> MappedKeys] : S \in SUBSET PropNames}

Includes ==
    {NoIncludes} \cup {[present |-> TRUE, set |-> S] : S \in SUBSET PropNames}

\* a page with no properties, for the block lists
PlainMetadata ==
    [id |-> PgP, parent |-> [database_id |-> DbD], properties |-> <<>>]

NoTableFields ==
    [table_width |-> 0, has_column_header |-> FALSE, has_row_header |-> FALSE]

TableFields ==
    [table_width : {1, 3}, has_column_header : BOOLEAN,
     has_row_header : BOOLEAN]

\* notion::Block with the fields the renderer reads
RenderBlock(id, block_type, payload, rich_text, table, cells) ==
    [id |-> id, block_type |-> block_type, payload |-> payload,
     rich_text |-> rich_text, table |-> table, cells |-> cells]

\* the kinds of block of the lists
BlockShapes ==
    {"paragraph", "numbered", "numbered, no payload", "children", "unknown",
     "table", "row a", "row _ c"}

ShapedBlock(shape, i, table) ==
    LET id == <<Digits[i + 1]>> IN
    CASE shape = "paragraph" ->
            RenderBlock(id, "paragraph", TRUE, <<Plain(<<"x">>)>>,
                        NoTableFields, <<>>)
      [] shape = "numbered" ->
            RenderBlock(id, "numbered_list_item", TRUE, <<Plain(<<"y">>)>>,
                        NoTableFields, <<>>)
      [] shape = "numbered, no payload" ->
            RenderBlock(id, "numbered_list_item", FALSE, <<>>,
                        NoTableFields, <<>>)
      [] shape = "children" ->
            RenderBlock(id \o <<":", ":", "c">>, "children", FALSE, <<>>,
                        NoTableFields, <<>>)
      [] shape = "unknown" ->
            RenderBlock(id, "synced_block", FALSE, <<>>, NoTableFields, <<>>)
      [] shape = "table" ->
            RenderBlock(id, "table", TRUE, <<>>, table, <<>>)
      [] shape = "row a" ->
            RenderBlock(id, "table_row", TRUE, <<>>, NoTableFields,
                        << <<Plain(<<"a">>)>> >>)
      [] shape = "row _ c" ->
            RenderBlock(id, "table_row", TRUE, <<>>, NoTableFields,
                        << <<>>, <<Plain(<<"c">>)>> >>)

\* the lists of exactly n blocks whose table blocks have the given fields
RECURSIVE ListsOf(_, _)
ListsOf(n, table) ==
    IF n = 0 THEN {<<>>}
    ELSE {Append(list, ShapedBlock(shape, n, table)) :
             list \in ListsOf(n - 1, table), shape \in BlockShapes}

\* the lists of at most max blocks; the table blocks of a list are alike
BlockLists(max) ==
    UNION {ListsOf(n, table) : n \in 0..max, table \in TableFields}

\* scenario 4 of the specification: a table of width 2 with a column
\* header and the rows [H1, H2] and [a, b]
TableScenario ==
    <<RenderBlock(<<"1">>, "table", TRUE, <<>>,
                  [table_width |-> 2, has_column_header |-> TRUE,
                   has_row_header |-> FALSE], <<>>),
      RenderBlock(<<"2">>, "table_row", TRUE, <<>>, NoTableFields,
                  << <<Plain(<<"H", "1">>)>>, <<Plain(<<"H", "2">>)>> >>),
      RenderBlock(<<"3">>, "table_row", TRUE, <<>>, NoTableFields,
                  << <<Plain(<<"a">>)>>, <<Plain(<<"b">>)>> >>)>>

\* the href of scenario 3
HrefU == <<"u">>

\* RichText segments with text A: without annotations, and with every
\* combination of the five annotations; each without and with an href
Segments ==
    {[Plain(<<"A">>) EXCEPT !.href = href] : href \in {None, HrefU}}
    \cup [plain_text : {<<"A">>}, annotated : {TRUE}, code : BOOLEAN,
          bold : BOOLEAN, italic : BOOLEAN, strikethrough : BOOLEAN,
          underline : BOOLEAN, href : {None, HrefU}]

\* scenario 3 of the specification: A, bold and italic, href u
SegmentScenario ==
    [plain_text |-> <<"A">>, annotated |-> TRUE, code |-> FALSE,
     bold |-> TRUE, italic |-> TRUE, strikethrough |-> FALSE,
     underline |-> FALSE, href |-> HrefU]

\* a paragraph of one segment
SegmentLists ==
    {<<RenderBlock(<<"1">>, "paragraph", TRUE, <<item>>, NoTableFields, <<>>)>> :
        item \in Segments}

\* a block of a kind that carries a file: the container's file.url,
\* external.url and name
MediaBlock(id, block_type, payload, file, external, name) ==
    [id |-> id, block_type |-> block_type, payload |-> payload,
     rich_text |-> <<>>, table |-> NoTableFields, cells |-> <<>>,
     media |-> [file |-> file, external |-> external, name |-> name]]

\* s://h/x.J?a.b
UrlQuery ==
    <<"s", ":", "/", "/", "h", "/", "x", ".", "J", "?", "a", ".", "b">>

\* s://h/x#a.b
UrlFragment == <<"s", ":", "/", "/", "h", "/", "x", "#", "a", ".", "b">>

\* s://h/d.e/x
UrlDir == <<"s", ":", "/", "/", "h", "/", "d", ".", "e", "/", "x">>

\* s://h.io
UrlHost == <<"s", ":", "/", "/", "h", ".", "i", "o">>

FileUrls == {Absent, Some(UrlQuery), Some(UrlFragment)}

ExternalUrls == {Absent, Some(UrlHost), Some(UrlDir)}

\* N.P, a name that ends in its dot, a name between spaces
FileNames ==
    {Absent, Some(<<"N", ".", "P">>), Some(<<"n", ".">>),
     Some(<<" ", "n", ".", "p", " ">>)}

\* the blocks with a file under one id: images, the four kinds that have
\* a name, and each kind without its payload
MediaBlocks(id) ==
    {MediaBlock(id, "image", TRUE, file, external, Absent) :
        file \in FileUrls, external \in ExternalUrls}
    \cup {MediaBlock(id, type, TRUE, file, external, name) :
             type \in FileTypes, file \in FileUrls, external \in ExternalUrls,
             name \in FileNames}
    \cup {MediaBlock(id, type, FALSE, Absent, Absent, Absent) :
             type \in FileTypes \cup {"image"}}

\* a few of them, for the lists of two blocks
PairBlocks(id) ==
    {MediaBlock(id, "image", TRUE, Some(UrlQuery), Absent, Absent),
     MediaBlock(id, "image", TRUE, Absent, Some(UrlHost), Absent),
     MediaBlock(id, "pdf", TRUE, Absent, Some(UrlDir),
                Some(<<"N", ".", "P">>)),
     MediaBlock(id, "file", FALSE, Absent, Absent, Absent),
     RenderBlock(id, "paragraph", TRUE, <<Plain(<<"x">>)>>,
                 NoTableFields, <<>>)}

MediaLists ==
    {<<block>> : block \in MediaBlocks(<<"1">>)}
    \cup {<<first, second>> :
             first \in PairBlocks(<<"1">>), second \in PairBlocks(<<"2">>)}

\* the block lists of the scenarios, beside the enumerated ones
ScenarioLists == {TableScenario} \cup SegmentLists \cup MediaLists

RenderInit ==
    /\ init_queue("memory")
    /\ active = 0
    /\ timers = {}
    /\ rescan = spawn_periodic_sync(interval_seconds)
    /\ web = [k \in 1..MaxWebhooks |-> NoTask]
    /\ resp = [count |-> 0, status |-> 0]
    /\ store = {}
    /\ faults = 0
    /\ sent = [p \in Producers |-> 0]
    /\ recvd = [p \in Producers |-> 0]
    /\ clients = 0
    /\ codec = IdleCodec
    /\ secret = Key1
    /\ \/ \E metadata \in Metadatas, key_map \in KeyMaps,
             property_includes \in Includes :
             call = [op |-> "render_page", pc |-> "called",
                     metadata |-> metadata, blocks |-> <<>>,
                     key_map |-> key_map,
                     property_includes |-> property_includes]
       \/ \E blocks \in BlockLists(MaxRenderBlocks) \cup ScenarioLists :
             call = [op |-> "render_page", pc |-> "called",
                     metadata |-> PlainMetadata, blocks |-> blocks,
                     key_map |-> <<>>, property_includes |-> NoIncludes]

\* render_page returns
RenderReturn ==
    /\ call.op = "render_page" /\ call.pc = "called"
    /\ call' = [op |-> call.op, pc |-> "returned",
                metadata |-> call.metadata, blocks |-> call.blocks,
                key_map |-> call.key_map,
                property_includes |-> call.property_includes,
                result |-> render_page(call.metadata, call.blocks,
                                       call.key_map, call.property_includes)]
    /\ UNCHANGED <<kind, queue, worker, active, timers, rescan, web, resp,
                   store, faults, sent, recvd, clients, codec, secret>>

RenderNext == RenderReturn

RenderSpec == RenderInit /\ [][RenderNext]_vars

\* ------------------------------------------------------------------------
\* Properties
\* ------------------------------------------------------------------------
Processing(w) == w.pc \in {"sync", "query", "enqueue"}

\* the job that the next dequeue returns
HeadJob == IF kind = "memory" THEN Head(queue).item ELSE Decode(Head(queue).item)

\* the worker takes the head of the queue in this step
Dequeues == worker.pc = "recv" /\ queue # <<>> /\ queue' = Tail(queue)

Configured(database_id) ==
    \E i \in 1..Len(Databases) : Databases[i].id = database_id

\* C1: the worker processes at most one job at a time: at most one
\* handle_job call has not returned, and the worker is in it exactly when
\* it is not waiting for the next job, in both queue variants.
C1_OneJobAtATime ==
    /\ active <= 1
    /\ active = 1 <=> Processing(worker)

C1_Witness == active = 1 /\ queue # <<>> /\ timers # {}

\* C2: no two executions of sync_page are in progress at the same time,
\* whether started by the worker or by a task of the webhook handler.
SyncsInProgress ==
    (IF worker.pc = "sync" /\ InSyncPage(worker.sync) THEN 1 ELSE 0)
    + Cardinality({k \in 1..MaxWebhooks :
                     web[k].kind = "page" /\ InSyncPage(web[k].sync)})

C2_SyncsSerialized == SyncsInProgress <= 1

\* C3: a job that failed is back in the queue only when at least 10 s have
\* passed since the failure: every queue entry put there by a requeue task
\* has waited RequeueDelay seconds, and a requeue task whose sleep is not
\* over has put nothing in the queue.
C3_RequeueNotBefore10s ==
    /\ \A i \in 1..Len(queue) :
          queue[i].prod[1] = "requeue" => queue[i].waited >= RequeueDelay
    /\ \A t \in timers : \A i \in 1..Len(queue) :
          queue[i].prod # <<"requeue", t.id>>

C3_Witness ==
    \E i \in 1..Len(queue) :
        queue[i].prod[1] = "requeue" /\ queue[i].waited >= RequeueDelay

\* C4: when processing a job fails, in the same step exactly one requeue
\* task is spawned, for the same job and with a delay of 10 s, nothing is
\* enqueued, and the worker goes on to its sleep and then to the next
\* dequeue.
C4_FailureRequeuesOnce ==
    [][ /\ (Processing(worker) /\ worker'.pc = "sleep"
             /\ worker'.result = "failed")
            => /\ \E t \in timers' \ timers :
                    /\ timers' = timers \cup {t}
                    /\ t.job = worker.job
                    /\ t.remaining = RequeueDelay /\ t.waited = 0
               /\ queue' = queue
        /\ (Processing(worker) /\ worker'.pc = "sleep"
             /\ worker'.result # "failed") => timers' = timers
        /\ (worker.pc = "sleep" /\ worker' # worker) => worker'.pc = "recv"
      ]_vars

C4_Witness ==
    /\ worker.pc = "sleep" /\ worker.result = "failed"
    /\ worker.job.type = "SyncPageById"
    /\ \E t \in timers : t.job = worker.job /\ t.remaining = RequeueDelay

\* C5: with the in-process queue the queue never holds more than
\* ChannelCapacity jobs and every job whose enqueue was started is delivered
\* to the consumer; so the only consumer is never itself blocked in an
\* enqueue on the full queue, a state in which no slot is ever freed.
ConsumerStuck == kind = "memory" /\ Full /\ worker.pc = "enqueue"

C5_BoundedAndDelivered ==
    kind = "memory" => Len(queue) <= ChannelCapacity /\ ~ConsumerStuck

\* C6: FIFO per producer: the jobs of one producer are in the queue in the
\* order of their enqueues, and every queued job of a producer was enqueued
\* after the last job of that producer that the worker dequeued.
C6_FifoPerProducer ==
    /\ \A i \in 1..Len(queue) : \A j \in 1..Len(queue) :
          (i < j /\ queue[i].prod = queue[j].prod /\ queue[i].prod \in Producers)
              => queue[i].n < queue[j].n
    /\ \A i \in 1..Len(queue) :
          queue[i].prod \in Producers => queue[i].n > recvd[queue[i].prod]

C6_Witness ==
    /\ recvd[<<"worker", 0>>] >= 2
    /\ \E i \in 1..Len(queue) : queue[i].prod = <<"rescan", 0>>

\* C7: a job whose binding cannot be found is dropped: a SyncPage or
\* ScanDataSource job with an unconfigured database id, and a SyncPageById
\* job whose parent lookup finds no binding, end processing in that step
\* with no store write, no enqueue and no requeue task.
C7_UnknownBindingDropped ==
    [][ ( \/ /\ Dequeues
              /\ HeadJob.type \in {"SyncPage", "ScanDataSource"}
              /\ ~Configured(HeadJob.database_id)
          \/ /\ worker.pc = "sync" /\ worker.sync.pc = "parent"
              /\ worker'.sync.result = "skipped" )
        => /\ worker'.pc = "sleep"
           /\ store' = store /\ timers' = timers /\ sent' = sent
           /\ queue' = IF Dequeues THEN Tail(queue) ELSE queue
      ]_vars

C7_Witness ==
    /\ worker.pc = "sleep" /\ worker.result = "dropped"
    /\ worker.job = SyncPage(DbX, PgQ)

\* the binding the parent designates: by data source id first, else by
\* database id, else none
DesignatedBinding(parent) ==
    IF FindDbByDataSource(parent.data_source_id) # 0
    THEN Databases[FindDbByDataSource(parent.data_source_id)].id
    ELSE IF Configured(parent.database_id) THEN parent.database_id
    ELSE None

\* C8: when a SyncPageById job is processed, the binding is the one whose
\* data sources contain the parent's data_source_id, and only failing that
\* the one whose id is the parent's database_id; a page with such a binding
\* is synced and not skipped.
C8_DataSourceFirst ==
    (worker.job.type = "SyncPageById" /\ worker.sync.parent.known)
        => /\ worker.sync.db = DesignatedBinding(worker.sync.parent)
           /\ DesignatedBinding(worker.sync.parent) # None
                 => worker.sync.result # "skipped"

\* C9: in the step in which a scan of a configured database returns: if
\* the query succeeded with ids p1 .. pn the scan has put exactly the jobs
\* SyncPage(db, p1) .. SyncPage(db, pn) in the queue, in that order, and
\* no requeue task is spawned; if the query failed nothing was put in the
\* queue and the requeue task of the same scan job, with a delay of 10 s,
\* is spawned.
ScanJobs(w) == [i \in 1..Len(w.ids) |-> SyncPage(w.job.database_id, w.ids[i])]

ScanReturns ==
    /\ worker.job.type = "ScanDataSource" /\ Processing(worker)
    /\ worker'.pc = "sleep"

C9_ScanEnqueuesEveryPage ==
    [][ ScanReturns =>
          /\ worker'.result = "ok"
                => worker'.pushed = ScanJobs(worker') /\ timers' = timers
          /\ worker'.result = "failed"
                => /\ worker'.pushed = <<>>
                   /\ \E t \in timers' \ timers :
                         /\ timers' = timers \cup {t}
                         /\ t.job = worker.job /\ t.remaining = RequeueDelay
      ]_vars

\* C10: encoding a job and decoding the payload gives the job back, and
\* distinct jobs do not decode to the same job.
RoundTripInjective ==
    Cardinality({RoundTrip[j] : j \in CodecJobs}) = Cardinality(CodecJobs)

C10_RoundTrip ==
    codec.pc = "decoded" => codec.decoded = codec.job /\ RoundTripInjective

C10_Witness ==
    /\ codec.pc = "decoded"
    /\ codec.job = SyncPage(<<QUOTE>>, <<BSLASH, "n">>)
    /\ codec.decoded = codec.job

\* a connection failure of the broker consumer in this step: the connect
\* or the blocking pop returns an error
ConnectionFails ==
    /\ kind = "redis" /\ worker.pc \in {"connect", "recv"}
    /\ faults' = faults + 1
    /\ worker' # worker

\* C11: after a failed connect or a failed blocking pop the broker consumer
\* waits 2 s before its next connection attempt, leaves that wait only to
\* connect again, and the failure removes no job from the broker list.
C11_ReconnectAfter2s ==
    [][ /\ ConnectionFails =>
              /\ worker'.pc = "backoff" /\ worker'.wait = ReconnectDelay
              /\ queue' = queue
        /\ (worker.pc = "backoff" /\ worker'.pc # "backoff") =>
              worker.wait = 0 /\ worker'.pc = "connect"
      ]_vars

\* ------------------------------------------------------------------------
\* Webhook properties; under HandlerSpec the request is web[1].req
\* ------------------------------------------------------------------------
\* nothing was spawned for the request and nothing was enqueued or written
Quiet ==
    /\ web[1].kind = "none" /\ sent[<<"web", 1>>] = 0
    /\ queue = <<>> /\ store = {}

\* the payload carries a verification token
TokenPresent(b) == b.verification_token \notin {None, NotAString}

\* HMAC-SHA256(secret, body) = hex-decode(strip_prefix("sha256=", header))
SignatureMatches(b) ==
    /\ b.header.present
    /\ LET decoded == hex_decode(strip_prefix(b.header.value, Sha256Prefix))
       IN decoded.ok /\ decoded.bytes = Mac(secret, b.body)

\* the distance of the event's timestamp from the handler's clock
EventAge(b) ==
    LET at == b.timestamp.local - b.timestamp.offset
    IN IF at <= b.now THEN b.now - at ELSE at - b.now

StaleEvent(b) ==
    b.timestamp.t = "rfc3339" /\ EventAge(b) > webhook_max_age_seconds

\* the first member of vals that is a string, None when there is none
RECURSIVE FirstString(_)
FirstString(vals) ==
    IF vals = <<>> THEN None
    ELSE IF Head(vals) \notin {None, NotAString} THEN Head(vals)
    ELSE FirstString(Tail(vals))

PageIdOf(b) == FirstString(<<b.page_id, b.data.id>>)

DataSourceIdOf(b) ==
    FirstString(<<b.data_source_id, b.data.data_source_id,
                  b.data.parent.data_source_id>>)

DatabaseIdOf(b) ==
    FirstString(<<b.database_id, b.data.database_id,
                  b.data.parent.database_id>>)

\* the request passes the JSON, token and signature checks
PassesGates(b) ==
    b.json /\ ~TokenPresent(b) /\ (secret = None \/ SignatureMatches(b))

\* the request reaches the extraction of ids
Accepted(b) == PassesGates(b) /\ ~StaleEvent(b)

\* C12: with a secret configured, a request that reaches the signature
\* check is accepted iff the HMAC of the raw body under the secret equals
\* the hex-decoded header after the optional sha256= prefix; a missing,
\* non-hex or mismatching header is answered 401 and starts nothing.
C12_SignatureVerified ==
    (resp.count = 1 /\ secret # None /\ web[1].req.json
        /\ ~TokenPresent(web[1].req)) =>
        /\ (resp.status # 401) <=> SignatureMatches(web[1].req)
        /\ resp.status = 401 => Quiet

C12_Witness ==
    /\ resp.count = 1 /\ secret = Key2
    /\ web[1].req.body = "b1"
    /\ web[1].req.header = Header(Sha256Prefix \o <<"a", "A">>)
    /\ resp.status = 200 /\ web[1].kind # "none"

\* C13: the response is decided by the first applicable check: not JSON
\* gives 400, a verification token 200, a missing or wrong signature under
\* a configured secret 401, a stale timestamp 200, and none of these
\* starts anything; only then the ids decide.
C13_ChecksInOrder ==
    resp.count = 1 =>
        LET b == web[1].req IN
        /\ ~b.json => resp.status = 400 /\ Quiet
        /\ (b.json /\ TokenPresent(b)) => resp.status = 200 /\ Quiet
        /\ (b.json /\ ~TokenPresent(b) /\ secret # None /\ ~SignatureMatches(b))
              => resp.status = 401 /\ Quiet
        /\ (PassesGates(b) /\ StaleEvent(b)) => resp.status = 200 /\ Quiet
        /\ Accepted(b) =>
              /\ resp.status \in {200, 400}
              /\ resp.status = 400 <=>
                    /\ PageIdOf(b) = None /\ DataSourceIdOf(b) = None
                    /\ DatabaseIdOf(b) = None
              /\ PageIdOf(b) # None => web[1].kind # "none"

C13_Witness ==
    /\ resp.count = 1 /\ secret = Key1
    /\ TokenPresent(web[1].req) /\ ~SignatureMatches(web[1].req)
    /\ StaleEvent(web[1].req)
    /\ resp.status = 200 /\ Quiet

\* C14: an event whose RFC 3339 timestamp is further than maxAgeSeconds
\* from now, in the past or in the future, is answered 200 and starts
\* nothing; an event that is at most maxAgeSeconds away is handled as the
\* ids it carries say.
C14_StaleDropped ==
    (resp.count = 1 /\ PassesGates(web[1].req)
        /\ web[1].req.timestamp.t = "rfc3339") =>
        LET b == web[1].req IN
        /\ EventAge(b) > webhook_max_age_seconds => resp.status = 200 /\ Quiet
        /\ EventAge(b) <= webhook_max_age_seconds =>
              /\ resp.status = Dispatched(b).status
              /\ web[1].kind = "none" <=> Dispatched(b).task.kind = "none"

C14_Witness ==
    /\ resp.count = 1 /\ PassesGates(web[1].req)
    /\ web[1].req.timestamp =
          Timestamp("rfc3339", Now + webhook_max_age_seconds + 1, 0)
    /\ web[1].req.page_id = PgP
    /\ resp.status = 200 /\ Quiet

\* C15: an accepted request with a page id (page_id, else data.id) is
\* answered 200 and puts exactly one job, SyncPageById(pageId), into the
\* queue and no scan job, whatever other ids it carries; a request with
\* none of the three ids is answered 400 and enqueues nothing.
C15_PageEventEnqueuesSyncPageById ==
    (resp.count = 1 /\ Accepted(web[1].req)) =>
        LET b == web[1].req IN
        /\ PageIdOf(b) # None =>
              /\ resp.status = 200
              /\ sent[<<"web", 1>>] = 1
              /\ \A i \in 1..Len(queue) :
                    queue[i].item = Item(SyncPageById(PageIdOf(b)))
        /\ (PageIdOf(b) = None /\ DataSourceIdOf(b) = None
              /\ DatabaseIdOf(b) = None) => resp.status = 400 /\ Quiet

\* the data source or the database that the request names first is
\* configured in no binding
NamesUnknown(b) ==
    /\ PageIdOf(b) = None
    /\ IF DataSourceIdOf(b) # None
       THEN \A i \in 1..Len(Databases) :
               \A k \in 1..Len(Databases[i].data_sources) :
                  Databases[i].data_sources[k] # DataSourceIdOf(b)
       ELSE DatabaseIdOf(b) # None /\ ~Configured(DatabaseIdOf(b))

\* C16: an accepted event that names a data source of no binding, or a
\* database that is no binding's id, is answered 200 and leaves the queue
\* as it is: nothing is enqueued and nothing is started.
C16_UnknownIdDropped ==
    (resp.count = 1 /\ Accepted(web[1].req) /\ NamesUnknown(web[1].req)) =>
        resp.status = 200 /\ Quiet

C16_Witness ==
    /\ resp.count = 1 /\ Accepted(web[1].req)
    /\ web[1].req.page_id = NotAString
    /\ web[1].req.data_source_id = DsZ /\ web[1].req.database_id = DbD
    /\ web[1].req.data = NoData
    /\ resp.status = 200 /\ Quiet

\* the scan jobs the claim names for the request, in order
ExpectedScans(b) ==
    IF PageIdOf(b) # None THEN <<>>
    ELSE IF DataSourceIdOf(b) # None
    THEN LET S == {i \in 1..Len(Databases) :
                     \E k \in 1..Len(Databases[i].data_sources) :
                        Databases[i].data_sources[k] = DataSourceIdOf(b)}
         IN IF S = {} THEN <<>>
            ELSE <<ScanDataSource(Databases[CHOOSE i \in S : TRUE].id,
                                  DataSourceIdOf(b))>>
    ELSE IF DatabaseIdOf(b) # None /\ Configured(DatabaseIdOf(b))
    THEN LET db == Databases[CHOOSE i \in 1..Len(Databases) :
                                Databases[i].id = DatabaseIdOf(b)]
         IN [k \in 1..Len(db.data_sources) |->
                ScanDataSource(db.id, db.data_sources[k])]
    ELSE <<>>

FetchReturned ==
    call.op = "fetch_blocks" /\ call.pc = "returned"

IsMarker(e) == e.type = "children"

\* the blocks above block n, the root included
RECURSIVE Ancestors(_, _)
Ancestors(tree, n) ==
    IF n = 0 THEN {} ELSE {tree.par[n]} \cup Ancestors(tree, tree.par[n])

\* the block in whose list of children e stands: the parent of a block,
\* and for a children marker the block it marks
Level(tree, e) ==
    IF IsMarker(e) THEN NodeOf(e.id) ELSE tree.par[NodeOf(e.id)]

\* f is a sibling of e; a children marker counts as a sibling both of the
\* children it precedes and of the block it follows
Sibling(tree, e, f) ==
    /\ ~IsMarker(f)
    /\ tree.par[NodeOf(f.id)] \in
          IF IsMarker(e) THEN {NodeOf(e.id), tree.par[NodeOf(e.id)]}
          ELSE {tree.par[NodeOf(e.id)]}

SiblingOfSelfOrAncestor(tree, e, f) ==
    /\ ~IsMarker(f)
    /\ tree.par[NodeOf(f.id)] \in
          {Level(tree, e)} \cup Ancestors(tree, Level(tree, e))

\* out[i+1] is the children marker of out[i], and the elements after it
\* that lie below out[i] are one run that holds every child of out[i] in
\* upstream order
MarkerAndSubtree(tree, out, i) ==
    /\ ~IsMarker(out[i])
    /\ out[i + 1] = children_marker(out[i].id)
    /\ LET n == NodeOf(out[i].id)
           Below(e) == n \in Ancestors(tree, NodeOf(e.id))
           Child(e) == ~IsMarker(e) /\ tree.par[NodeOf(e.id)] = n
           k == CHOOSE k \in 0..(Len(out) - i - 1) :
                   /\ \A j \in (i + 2)..(i + 1 + k) : Below(out[j])
                   /\ i + 2 + k > Len(out) \/ ~Below(out[i + 2 + k])
       IN /\ SelectSeq(SubSeq(out, i + 2, i + 1 + k), Child)
                = [j \in 1..Len(Kids(tree, n)) |-> BlockOf(tree, Kids(tree, n)[j])]
          /\ \A j \in 1..Len(out) :
                (j \notin (i + 2)..(i + 1 + k)) => ~Below(out[j])

NoBlockTwice(out) ==
    \A i, j \in 1..Len(out) : out[i].id = out[j].id => i = j

\* The statement as the specification words it: out[i+1] is a sibling of
\* out[i], or the children marker of out[i] followed by its child subtree.
C18_NextIsSiblingOrMarker ==
    (FetchReturned /\ call.result.status = "ok") =>
        LET out == call.result.blocks IN
        /\ \A i \in 1..(Len(out) - 1) :
              \/ Sibling(call.tree, out[i], out[i + 1])
              \/ MarkerAndSubtree(call.tree, out, i)
        /\ NoBlockTwice(out)

\* C18: in the sequence fetch_blocks returns, the element after element i
\* is a sibling of i or of a block above i (the subtree of that block ends
\* with i), or it is the children marker of i immediately followed by i's
\* child subtree; no block appears twice.
C18_NextIsSiblingAboveOrMarker ==
    (FetchReturned /\ call.result.status = "ok") =>
        LET out == call.result.blocks IN
        /\ \A i \in 1..(Len(out) - 1) :
              \/ SiblingOfSelfOrAncestor(call.tree, out[i], out[i + 1])
              \/ MarkerAndSubtree(call.tree, out, i)
        /\ NoBlockTwice(out)

C18_Witness ==
    /\ FetchReturned /\ call.result.status = "ok"
    /\ call.tree.n = 3 /\ call.tree.par = <<0, 1, 0>>
    /\ call.result.blocks =
          <<BlockOf(call.tree, 1), children_marker(<<"n1">>),
            BlockOf(call.tree, 2), BlockOf(call.tree, 3)>>

\* the pre-order traversal of the blocks nodes and what lies below them,
\* a block being expanded iff it has children and budget d > 0
RECURSIVE PreOrder(_, _, _)
PreOrder(tree, nodes, d) ==
    IF nodes = <<>> THEN <<>>
    ELSE LET n == Head(nodes) IN
         <<BlockOf(tree, n)>>
         \o (IF tree.hc[n] /\ d > 0
             THEN <<children_marker(<<NodeName[n]>>)>>
                  \o PreOrder(tree, Kids(tree, n), d - 1)
             ELSE <<>>)
         \o PreOrder(tree, Tail(nodes), d)

\* the listings a traversal asks for, in the order the blocks are met
ExpandedIds(out) ==
    LET marked == SelectSeq(out, IsMarker)
    IN [i \in 1..Len(marked) |-> <<marked[i].id[1]>>]

\* C19: fetch_blocks(root, D) is the pre-order traversal of the upstream
\* tree cut by the budget: the children of the root carry D, a block is
\* followed by its marker and its children (budget d-1) iff has_children
\* and d > 0, siblings keep upstream order, one listing is fetched for the
\* root and one for every expanded block, and D = 0 gives the children of
\* the root without any marker.  The call fails iff a listing it asks for
\* fails.
C19_PreOrderWithinBudget ==
    FetchReturned =>
        LET expected == PreOrder(call.tree, Kids(call.tree, 0), call.depth)
            listings == <<Root>> \o ExpandedIds(expected)
            failing == \/ 0 \in call.tree.fail
                       \/ \E i \in 2..Len(listings) :
                             NodeOf(listings[i]) \in call.tree.fail
        IN /\ call.result.status = "ok" <=> ~failing
           /\ call.result.status = "ok" =>
                 /\ call.result.blocks = expected
                 /\ \A i \in 1..Len(listings) :
                       Cardinality({j \in 1..Len(call.result.fetched) :
                                       call.result.fetched[j] = listings[i]}) = 1
                 /\ Len(call.result.fetched) = Len(listings)
                 /\ call.depth = 0 =>
                       /\ \A i \in 1..Len(expected) : ~IsMarker(call.result.blocks[i])
                       /\ Len(call.result.blocks) = Len(Kids(call.tree, 0))

C19_Witness ==
    /\ FetchReturned /\ call.result.status = "ok" /\ call.depth = 2
    /\ call.tree.n = 4 /\ call.tree.par = <<0, 1, 2, 3>>
    /\ call.tree.hc = <<TRUE, TRUE, TRUE, FALSE>>
    /\ call.result.blocks =
          <<BlockOf(call.tree, 1), children_marker(<<"n1">>),
            BlockOf(call.tree, 2), children_marker(<<"n2">>),
            BlockOf(call.tree, 3)>>

\* ------------------------------------------------------------------------
\* Pagination properties
\* ------------------------------------------------------------------------
PageReturned == call.op \in {"fetch_block_children", "query_data_source_page_ids"}
                /\ call.pc = "returned"

\* the cursors a client that follows next_cursor asks for, at most fuel
RECURSIVE Chain(_, _, _)
Chain(server, c, fuel) ==
    IF fuel = 0 THEN <<>>
    ELSE IF server[c].ok /\ server[c].has_more
    THEN <<c>> \o Chain(server, server[c].next_cursor, fuel - 1)
    ELSE <<c>>

RECURSIVE Concat(_, _)
Concat(server, cursors) ==
    IF cursors = <<>> THEN <<>>
    ELSE server[Head(cursors)].results \o Concat(server, Tail(cursors))

\* C20: the client asks for the first page without a cursor, follows
\* next_cursor while has_more is set, stops at the first page without
\* has_more and returns the results of all pages in page order, each once;
\* a page that is not 2xx fails the call, which then returns no result.
C20_CursorPagination ==
    PageReturned =>
        LET chain == Chain(call.server, 0, MaxRequests)
            last == call.server[chain[Len(chain)]]
            all == Concat(call.server, chain)
            r == call.result
        IN /\ r.requests = chain /\ chain[1] = 0
           /\ ~last.ok => r.status = "err" /\ r.value = <<>>
           /\ (last.ok /\ ~last.has_more) =>
                 /\ r.status = "ok"
                 /\ r.value = IF call.op = "fetch_block_children" THEN all
                              ELSE [i \in 1..Len(all) |-> all[i].id]
                 /\ \A i, j \in 1..Len(r.value) : r.value[i] = r.value[j] => i = j
           /\ r.status = "ok" => last.ok /\ ~last.has_more

C20_Witness ==
    /\ PageReturned /\ call.op = "query_data_source_page_ids"
    /\ call.result.status = "ok"
    /\ call.result.requests = <<0, 2, 1>>
    /\ call.result.value = <<<<"a">>, <<"b">>, <<"c">>>>

\* ------------------------------------------------------------------------
\* Periodic rescanner (spec 4.8)
\* ------------------------------------------------------------------------

\* C21: the rescanner runs only when sync.interval_seconds > 0: with an
\* interval of zero no tick ever fires and no periodic scan is ever started.
C21_NoTickWhenIntervalZero ==
    rescan.interval = 0 => rescan.ticks = 0 /\ rescan.pending = <<>>

\* the (binding, data source) pairs of the configuration
Pairs ==
    UNION {{<<i, k>> : k \in 1..Len(Databases[i].data_sources)} :
              i \in 1..Len(Databases)}

\* the pairs before <<i, k>> in table order
PairsBefore(i, k) ==
    {q \in Pairs : q[1] < i \/ (q[1] = i /\ q[2] < k)}

\* the scan job the claim names for each pair, in table order
PairJobs ==
    [m \in 1..Cardinality(Pairs) |->
        LET q == CHOOSE q \in Pairs : Cardinality(PairsBefore(q[1], q[2])) = m - 1
        IN ScanDataSource(Databases[q[1]].id, Databases[q[1]].data_sources[q[2]])]

\* the entries of the queue that the rescanner put there
RescanEntries == {i \in 1..Len(queue) : queue[i].prod = <<"rescan", 0>>}

TickHeldUp == rescan.pending # <<>> /\ Full

\* C23: a tick only enqueues and never waits for scan or page-sync work, so
\* the ticker loop is never held up by work that is queued, running or
\* failing, and the next tick fires at its scheduled time.
C23_TickNeverWaitsForWork == ~TickHeldUp

\* ------------------------------------------------------------------------
\* Page sync and blobs (spec 4.3, 4.4)
\* ------------------------------------------------------------------------

\* the BlobRefs that are first with their path, in list order
RECURSIVE FirstRefs(_, _)
FirstRefs(blobs, paths) ==
    IF blobs = <<>> THEN <<>>
    ELSE IF Head(blobs).path \in paths THEN FirstRefs(Tail(blobs), paths)
    ELSE <<Head(blobs)>> \o FirstRefs(Tail(blobs), paths \cup {Head(blobs).path})

\* the entries of the log of one kind, in order
RECURSIVE Events(_, _)
Events(log, ev) ==
    IF log = <<>> THEN <<>>
    ELSE IF Head(log).ev = ev THEN <<Head(log)>> \o Events(Tail(log), ev)
    ELSE Events(Tail(log), ev)

Downloads == Events(call.log, "get")

DocumentWrite == Written(PagePath(call.page), Markdown)

\* the writes of the log other than that of the document
BlobWrites ==
    LET W == Events(call.log, "write")
    IN IF W # <<>> /\ Head(W) = DocumentWrite THEN Tail(W) ELSE W

SyncPageOver == call.op = "sync_page" /\ call.pc \in {"done", "returned"}

\* sync_page failed in sync_blobs: a download or a blob write failed
BlobFailed == SyncPageOver /\ call.result = "err" /\ Downloads # <<>>

\* C24: in sync_page the write of pages/{pageId}.md precedes every blob
\* download and blob write; when a blob download or write fails the
\* document and the blobs before the failing one are in the store, no blob
\* after it is requested or written, and the job is handed to requeue_after.
C24_DocumentBeforeBlobs ==
    call.op = "sync_page" =>
       /\ (Downloads # <<>> \/ BlobWrites # <<>>) =>
             /\ Head(call.log) = DocumentWrite
             /\ <<call.db, PagePath(call.page)>> \in store
       /\ BlobFailed =>
             LET k == Len(Downloads)
                 first == FirstRefs(call.blobs, {})
             IN /\ k <= Len(first)
                /\ \A i \in 1..k : Downloads[i].path = first[i].path
                /\ Len(BlobWrites) = k - 1
                /\ \A i \in 1..k - 1 :
                      /\ BlobWrites[i].path = first[i].path
                      /\ <<call.db, first[i].path>> \in store
                /\ \A i \in k..Len(first) :
                      <<call.db, first[i].path>> \notin store
                /\ call.pc = "returned" =>
                      \E t \in timers :
                         /\ t.job = call.job
                         /\ t.remaining = RequeueDelay

C24_Witness ==
    /\ BlobFailed /\ call.pc = "returned"
    /\ Len(FirstRefs(call.blobs, {})) = 3
    /\ Len(Downloads) = 2 /\ Len(BlobWrites) = 1
    /\ timers # {}

\* C25: sync_blobs downloads and writes each distinct blob path at most
\* once, in list order, from the URL of the first BlobRef with that path; a
\* download that is not answered 2xx fails the page; after a successful
\* sync every distinct path was written; an empty blob list causes no
\* request and no blob write.
C25_EachBlobPathOnce ==
    call.op = "sync_page" =>
       LET first == FirstRefs(call.blobs, {})
           k == Len(Downloads)
           w == Len(BlobWrites)
       IN /\ k <= Len(first) /\ w <= k /\ k <= w + 1
          /\ \A i \in 1..k :
                /\ Downloads[i].path = first[i].path
                /\ Downloads[i].url = first[i].url
                /\ Downloads[i].outcome # "2xx" =>
                      i = k /\ w = k - 1 /\ SyncPageOver /\ call.result = "err"
          /\ \A i \in 1..w :
                BlobWrites[i] = Written(first[i].path, BytesOf(first[i].url))
          /\ (SyncPageOver /\ call.result = "ok") =>
                /\ w = Len(first)
                /\ store = {<<call.db, PagePath(call.page)>>}
                            \cup {<<call.db, first[i].path>> : i \in 1..w}
          /\ call.blobs = <<>> =>
                /\ k = 0 /\ w = 0
                /\ store \subseteq {<<call.db, PagePath(call.page)>>}

\* a list that repeats a path with another URL was synced, and a page with
\* no blobs was synced
C25_Witness ==
    /\ SyncPageOver /\ call.result = "ok"
    /\ Len(call.blobs) = 3 /\ Len(BlobWrites) = 2
    /\ call.blobs[1].path = call.blobs[2].path
    /\ call.blobs[1].url # call.blobs[2].url

\* ------------------------------------------------------------------------
\* Renderer (spec 4.2)
\* ------------------------------------------------------------------------
Rendered == call.op = "render_page" /\ call.pc = "returned"

\* the top-level keys of the front matter, in output order
FrontKeys ==
    [i \in 1..Len(call.result.front_matter) |-> call.result.front_matter[i].key]

\* the value under a key of a mapping that has the key
ValueAt(m, key) == m[IndexOf(m, key)].value

\* C26: for every page metadata, key map and include set the front matter
\* has the top-level key _notion, its value is a mapping whose page_id is
\* the id of the page, and that mapping has database_id exactly when the
\* parent of the page has a database id (and then with that id).
C26_NotionKeyAlwaysPresent ==
    Rendered =>
       LET fm == call.result.front_matter
           parent == call.metadata.parent.database_id
       IN /\ IndexOf(fm, NotionKey) # 0
          /\ ValueAt(fm, NotionKey).yaml = "Mapping"
          /\ LET meta == ValueAt(fm, NotionKey).entries
             IN /\ IndexOf(meta, <<"page_id">>) # 0
                /\ ValueAt(meta, <<"page_id">>) = YamlString(call.metadata.id)
                /\ IndexOf(meta, <<"database_id">>) # 0 <=> parent # None
                /\ parent # None =>
                      ValueAt(meta, <<"database_id">>) = YamlString(parent)

\* the key the claim gives a property: the key map's entry, else the name
ClaimedKey(name) ==
    IF name \in DOMAIN call.key_map THEN call.key_map[name] ELSE name

\* the properties the claim says are emitted
Emitted ==
    {name \in DOMAIN call.metadata.properties :
        /\ call.property_includes.present => name \in call.property_includes.set
        /\ ClaimedKey(name) # <<>>}

\* the names below a name in lexical order
Below(names, name) == {m \in names : LexLess(m, name)}

\* C27: the keys of the front matter are _notion and then one key for each
\* emitted property, in lexical order of the upstream names; a property is
\* emitted iff it is included (when an include set is configured) and its
\* mapped key is not empty, and its key is the key map's entry when it has
\* one and the upstream name otherwise.
C27_OneKeyPerEmittedProperty ==
    Rendered =>
       /\ Len(FrontKeys) = 1 + Cardinality(Emitted)
       /\ FrontKeys[1] = NotionKey
       /\ \A name \in Emitted :
             FrontKeys[2 + Cardinality(Below(Emitted, name))] = ClaimedKey(name)

\* what the loop printed, block by block, and the flush after the loop
RECURSIVE Printed(_)
Printed(trace) ==
    IF trace = <<>> THEN <<>>
    ELSE Head(trace).flushed \o Head(trace).text \o Printed(Tail(trace))

IsNumbered(block) == block.block_type = "numbered_list_item"

\* an item: a numbered_list_item block that carries its text
IsItem(block) == IsNumbered(block) /\ block.payload

\* the first block of the maximal run of numbered_list_item blocks around i
RunStart(blocks, i) ==
    CHOOSE j \in 1..i :
       /\ \A m \in j..i : IsNumbered(blocks[m])
       /\ j = 1 \/ ~IsNumbered(blocks[j - 1])

\* the place of item i among the items of its run
PlaceInRun(blocks, i) ==
    Cardinality({m \in RunStart(blocks, i)..i : IsItem(blocks[m])})

\* C28: the k-th item of a maximal run of consecutive numbered_list_item
\* blocks is printed with the number k, from 1; after any block of another
\* type, a children marker included, the next item has the number 1.  (A
\* numbered_list_item block that carries no text prints nothing and is not
\* counted.)
C28_NumberingRestarts ==
    Rendered =>
       LET blocks == call.blocks
           trace == call.result.trace
       IN /\ Len(trace) = Len(blocks)
          /\ call.result.markdown = Printed(trace) \o call.result.end_flushed
          /\ \A i \in 1..Len(blocks) :
                IsItem(blocks[i]) =>
                   trace[i].text =
                      Decimal(PlaceInRun(blocks, i)) \o <<".", " ">>
                      \o render_rich_text_vec(blocks[i].rich_text)
                      \o <<NewLine>>

C28_Witness ==
    /\ Rendered /\ Len(call.blocks) = 3
    /\ \A i \in 1..3 : IsItem(call.blocks[i])
    /\ call.result.markdown =
          <<"1", ".", " ", "y", NewLine, "2", ".", " ", "y", NewLine,
            "3", ".", " ", "y", NewLine>>

\* the cells of a table_row block as text
CellTexts(block) ==
    [c \in 1..Len(block.cells) |-> render_rich_text_vec(block.cells[c])]

\* the buffer the claim describes after a block: opened empty by a table
\* block, extended by a table_row block, left alone by a children marker,
\* closed by every other block
BufferAfter(before, block) ==
    CASE block.block_type = "table" /\ block.payload ->
            [open |-> TRUE, rows |-> <<>>, table |-> block.table]
      [] block.block_type = "table_row" /\ before.open ->
            IF block.payload
            THEN [before EXCEPT !.rows = Append(before.rows, CellTexts(block))]
            ELSE before
      [] block.block_type = "children" -> before
      [] OTHER -> [open |-> FALSE, rows |-> <<>>, table |-> NoTableFields]

\* the buffer after the first i blocks
RECURSIVE Buffer(_, _)
Buffer(blocks, i) ==
    IF i = 0 THEN [open |-> FALSE, rows |-> <<>>, table |-> NoTableFields]
    ELSE BufferAfter(Buffer(blocks, i - 1), blocks[i])

\* C29: a table block opens an empty buffer and prints nothing; table_row
\* blocks that follow are appended to it and print nothing; a children
\* marker does not close it; it is closed, and its text printed, exactly
\* when a block of another type arrives, before the text of that block, or
\* when the list ends; a buffer closed without rows prints nothing; at most
\* one buffer is open, a new table block closing the one before.
C29_TableBuffer ==
    Rendered =>
       LET blocks == call.blocks
           trace == call.result.trace
           n == Len(blocks)
       IN /\ Len(trace) = n
          /\ call.result.markdown = Printed(trace) \o call.result.end_flushed
          /\ \A i \in 1..n :
                LET before == Buffer(blocks, i - 1)
                    after == Buffer(blocks, i)
                    type == blocks[i].block_type
                IN /\ trace[i].open = after.open
                   /\ trace[i].open => trace[i].rows = after.rows
                   /\ type \in {"table", "table_row"} => trace[i].text = <<>>
                   /\ trace[i].closed <=>
                         before.open /\ type \notin {"table_row", "children"}
                   /\ trace[i].flushed # <<>> <=>
                         trace[i].closed /\ before.rows # <<>>
          /\ call.result.end_closed <=> Buffer(blocks, n).open
          /\ call.result.end_flushed # <<>> <=>
                Buffer(blocks, n).open /\ Buffer(blocks, n).rows # <<>>

\* a table with a row is closed by a paragraph, whose text comes after
\* the text of the table
C29_Witness ==
    /\ Rendered /\ Len(call.blocks) = 3
    /\ call.blocks[1].block_type = "table" /\ call.blocks[1].payload
    /\ call.blocks[2].block_type = "table_row"
    /\ call.blocks[3].block_type = "paragraph"
    /\ call.result.trace[3].closed
    /\ call.result.trace[3].flushed # <<>>
    /\ call.result.markdown =
          call.result.trace[3].flushed \o <<"x", NewLine, NewLine>>

\* the buffers that are closed with at least one row, in order: those that
\* a block closes and the one open at the end of the list
RECURSIVE ClosedBuffers(_, _)
ClosedBuffers(blocks, i) ==
    IF i > Len(blocks)
    THEN IF Buffer(blocks, Len(blocks)).rows # <<>>
         THEN <<Buffer(blocks, Len(blocks))>> ELSE <<>>
    ELSE LET before == Buffer(blocks, i - 1)
             closing == /\ before.open /\ before.rows # <<>>
                        /\ blocks[i].block_type \notin {"table_row", "children"}
         IN (IF closing THEN <<before>> ELSE <<>>)
            \o ClosedBuffers(blocks, i + 1)

\* the texts that closing a buffer printed, in order
RECURSIVE FlushedTexts(_)
FlushedTexts(trace) ==
    IF trace = <<>> THEN <<>>
    ELSE (IF Head(trace).flushed # <<>> THEN <<Head(trace).flushed>> ELSE <<>>)
         \o FlushedTexts(Tail(trace))

AllFlushedTexts ==
    FlushedTexts(call.result.trace)
    \o (IF call.result.end_flushed # <<>>
        THEN <<call.result.end_flushed>> ELSE <<>>)

\* cell c of a row, empty beyond its end
CellAt(row, c) == IF c <= Len(row) THEN row[c] ELSE <<>>

\* a header cell as printed: an empty one as a single space
Shown(cell) == IF cell = <<>> THEN <<" ">> ELSE cell

\* the width the claim gives a buffer
ClaimedWidth(b) ==
    LET lengths == {Len(b.rows[r]) : r \in 1..Len(b.rows)}
                   \cup {b.table.table_width}
    IN CHOOSE w \in lengths : \A v \in lengths : v <= w

\* C30: a buffer closed with at least one row is printed with
\* W = max(declared width, longest row) cells in the header, the separator
\* and every body row, short rows padded on the right with empty cells; the
\* header is row 0 with has_column_header and a blank row otherwise, in
\* which case every row is a body row; with has_row_header the first cell
\* of every body row is wrapped in **.
C30_TableWidthAndHeader ==
    Rendered =>
       LET closed == ClosedBuffers(call.blocks, 1)
           tables == call.result.tables
       IN /\ Len(tables) = Len(closed)
          /\ AllFlushedTexts = [j \in 1..Len(tables) |-> table_text(tables[j])]
          /\ \A j \in 1..Len(closed) :
                LET b == closed[j]
                    t == tables[j]
                    W == ClaimedWidth(b)
                    first == IF b.table.has_column_header THEN 1 ELSE 0
                IN /\ t.width = W
                   /\ Len(t.header) = W /\ Len(t.separator) = W
                   /\ \A c \in 1..W :
                         /\ t.separator[c] = <<"-", "-", "-">>
                         /\ t.header[c] =
                               IF b.table.has_column_header
                               THEN Shown(CellAt(b.rows[1], c)) ELSE <<" ">>
                   /\ Len(t.body) = Len(b.rows) - first
                   /\ \A r \in 1..Len(t.body) :
                         /\ Len(t.body[r]) = W
                         /\ \A c \in 1..W :
                               t.body[r][c] =
                                  IF b.table.has_row_header /\ c = 1
                                  THEN <<"*", "*">>
                                       \o CellAt(b.rows[r + first], c)
                                       \o <<"*", "*">>
                                  ELSE CellAt(b.rows[r + first], c)

\* a table declared with one column, with column and row headers, whose
\* rows have one and two cells
C30_Witness ==
    /\ Rendered /\ Len(call.result.tables) = 1
    /\ call.blocks[1].block_type = "table"
    /\ call.blocks[1].table.table_width = 1
    /\ call.result.tables[1].width = 2
    /\ call.result.tables[1].header = << <<"a">>, <<" ">> >>
    /\ call.result.tables[1].body = << << <<"*", "*", "*", "*">>, <<"c">> >> >>

\* a table line as the claim lays it out: bar and space, the cells
\* separated by space bar space, space and bar, then the line feed
ClaimedLine(cells) ==
    <<"|", " ">> \o Join(cells, <<" ", "|", " ">>) \o <<" ", "|", NewLine>>

\* the text of a table laid out that way, the blank line included
ClaimedTableText(lines) ==
    ClaimedLine(lines.header) \o ClaimedLine(lines.separator)
    \o Join([i \in 1..Len(lines.body) |-> ClaimedLine(lines.body[i])], <<>>)
    \o <<NewLine>>

\* C31: the table of scenario 4 is printed as the lines "| H1 | H2 |",
\* "| --- | --- |" and "| a | b |" and a blank line; every line of every
\* table starts with bar and space, separates its cells with space bar
\* space and ends with space and bar.
C31_TableTextLayout ==
    Rendered =>
       /\ call.blocks = TableScenario =>
             call.result.markdown =
                <<"|", " ", "H", "1", " ", "|", " ", "H", "2", " ", "|", NewLine,
                  "|", " ", "-", "-", "-", " ", "|", " ", "-", "-", "-", " ",
                  "|", NewLine,
                  "|", " ", "a", " ", "|", " ", "b", " ", "|", NewLine,
                  NewLine>>
       /\ AllFlushedTexts =
             [j \in 1..Len(call.result.tables) |->
                 ClaimedTableText(call.result.tables[j])]

\* text between an opening and a closing mark when the style is set
Wrap(on, open, text, close) == IF on THEN open \o text \o close ELSE text

\* a segment as the claim renders it
ClaimedSegment(item) ==
    LET bold == Wrap(item.bold, <<"*", "*">>, item.plain_text, <<"*", "*">>)
        italic == Wrap(item.italic, <<"*">>, bold, <<"*">>)
        strikethrough ==
            Wrap(item.strikethrough, <<"~", "~">>, italic, <<"~", "~">>)
        underline ==
            Wrap(item.underline, <<"<", "u", ">">>, strikethrough,
                 <<"<", "/", "u", ">">>)
        styled == IF item.code
                  THEN <<BackTick>> \o item.plain_text \o <<BackTick>>
                  ELSE underline
    IN Wrap(item.href # None, <<"[">>, styled,
            <<"]", "(">> \o item.href \o <<")">>)

\* C32: a segment with annotations.code is its text in backticks and no
\* other style; otherwise bold, italic, strikethrough and underline wrap
\* the text in that order, each around the one before; an href wraps the
\* styled text last as [x](href).  A, bold, italic, href u is [***A***](u).
C32_RichTextSegment ==
    Rendered =>
       /\ \A i \in 1..Len(call.blocks) :
             LET block == call.blocks[i] IN
             block.block_type = "paragraph" /\ block.payload =>
                call.result.trace[i].text =
                   Join([k \in 1..Len(block.rich_text) |->
                            ClaimedSegment(block.rich_text[k])], <<>>)
                   \o <<NewLine, NewLine>>
       /\ \A i \in 1..Len(call.blocks) :
             call.blocks[i].rich_text = <<SegmentScenario>> =>
                call.result.trace[i].text =
                   <<"[", "*", "*", "*", "A", "*", "*", "*", "]", "(", "u",
                     ")", NewLine, NewLine>>

\* the segment of scenario 3 has been rendered
C32_Witness ==
    /\ Rendered /\ Len(call.blocks) = 1
    /\ call.blocks[1].rich_text = <<SegmentScenario>>
    /\ call.result.markdown =
          <<"[", "*", "*", "*", "A", "*", "*", "*", "]", "(", "u", ")",
            NewLine, NewLine>>

\* a block of one of the five kinds that refer to a file
IsMedia(block) == block.block_type \in FileTypes \cup {"image"}

\* the URL of such a block: the hosted file's, or else the external one
MediaUrl(block) ==
    IF block.media.file.some THEN block.media.file.value
    ELSE block.media.external.value

\* such a block whose URL can be resolved
Resolvable(block) ==
    /\ IsMedia(block) /\ block.payload
    /\ block.media.file.some \/ block.media.external.some

\* the lower-cased text after the last dot, if there is a dot with text
\* after it
Suffix(text) ==
    IF Positions(text, ".") = {} \/ after_last(text, ".") = <<>> THEN Absent
    ELSE Some(to_lowercase(after_last(text, ".")))

\* the path of a URL scheme://authority/path?query#fragment, empty when
\* the URL ends with its authority
PathOf(url) ==
    LET bare == before_first(before_first(url, "#"), "?")
        colon == CHOOSE i \in Positions(bare, ":") :
                    \A k \in Positions(bare, ":") : i <= k
        rest == SubSeq(bare, colon + 3, Len(bare))
    IN IF Positions(rest, "/") = {} THEN <<>>
       ELSE SubSeq(rest, Len(before_first(rest, "/")) + 1, Len(rest))

\* the suffix of the last segment of the path
UrlSuffix(url) ==
    IF PathOf(url) = <<>> THEN Absent ELSE Suffix(after_last(PathOf(url), "/"))

\* the extension the claim gives a block: from the file name (taken
\* without the white space around it), else from the URL, else bin
ClaimedExt(block) ==
    LET of_name == IF block.block_type # "image" /\ block.media.name.some
                   THEN Suffix(trim(block.media.name.value)) ELSE Absent
    IN IF of_name.some THEN of_name.value
       ELSE IF UrlSuffix(MediaUrl(block)).some
            THEN UrlSuffix(MediaUrl(block)).value
       ELSE <<"b", "i", "n">>

ClaimedPath(block) ==
    <<"b", "l", "o", "b", "s", "/">> \o block.id \o <<".">> \o ClaimedExt(block)

\* the BlobRefs the claim expects, in block order
RECURSIVE ClaimedBlobs(_)
ClaimedBlobs(blocks) ==
    IF blocks = <<>> THEN <<>>
    ELSE (IF Resolvable(Head(blocks))
          THEN <<[path |-> ClaimedPath(Head(blocks)),
                  url |-> MediaUrl(Head(blocks))]>>
          ELSE <<>>)
         \o ClaimedBlobs(Tail(blocks))

\* a text ends with the given text
EndsWith(text, end) ==
    /\ Len(end) <= Len(text)
    /\ SubSeq(text, Len(text) - Len(end) + 1, Len(text)) = end

\* C33: every image, file, pdf, video or audio block with a resolvable URL
\* gives exactly one BlobRef, in block order, with path
\* blobs/{blockId}.{ext} and that URL, and its Markdown link is ../{path};
\* ext is the lower-cased suffix of the file name, else of the last path
\* segment of the URL without query and fragment, else bin; BlobRefs of
\* distinct block ids have distinct paths.
C33_BlobPathPerMediaBlock ==
    Rendered =>
       LET blocks == call.blocks
           blobs == call.result.blobs
       IN /\ blobs = ClaimedBlobs(blocks)
          /\ \A i \in 1..Len(blocks) :
                Resolvable(blocks[i]) =>
                   EndsWith(call.result.trace[i].text,
                            <<"(", ".", ".", "/">> \o ClaimedPath(blocks[i])
                            \o <<")", NewLine, NewLine>>)
          /\ \A i, k \in 1..Len(blocks) :
                /\ Resolvable(blocks[i]) /\ Resolvable(blocks[k])
                /\ blocks[i].id # blocks[k].id
                => ClaimedPath(blocks[i]) # ClaimedPath(blocks[k])

\* a block of a type that the renderer has no arm for
IsUnknown(block) == block.block_type \notin KnownKinds

\* a list without its i-th block
Without(blocks, i) == SubSeq(blocks, 1, i - 1) \o SubSeq(blocks, i + 1, Len(blocks))

\* what render_page returns for the page of the call with other blocks
RenderedWith(blocks) ==
    render_page(call.metadata, blocks, call.key_map, call.property_includes)

\* the block contributes no text and no blob
NothingOfItsOwn(i) ==
    /\ call.result.trace[i].text = <<>>
    /\ block_blobs(call.blocks[i]) = <<>>
    /\ call.result.blobs = RenderedWith(Without(call.blocks, i)).blobs

\* the Markdown is that of the list without the block
SameAsWithout(i) ==
    call.result.markdown = RenderedWith(Without(call.blocks, i)).markdown

\* C34 as stated: a block of an unknown type contributes no text and no
\* blob, and the list renders as the list without it, numbering and open
\* table included.
C34_UnknownBlockIgnored ==
    Rendered =>
       \A i \in 1..Len(call.blocks) :
          IsUnknown(call.blocks[i]) => NothingOfItsOwn(i) /\ SameAsWithout(i)

\* C34: a block of an unknown type contributes no text and no blob of its
\* own, but like every block that is not a numbered_list_item it puts the
\* numbering back to 1 and like every block other than table_row and
\* children it closes an open table; the list renders as the list without
\* the block when the block does not directly follow a numbered_list_item
\* and no table is open when it arrives.
C34_UnknownBlockOnlyResets ==
    Rendered =>
       \A i \in 1..Len(call.blocks) :
          IsUnknown(call.blocks[i]) =>
             /\ NothingOfItsOwn(i)
             /\ call.result.trace[i].closed <=> Buffer(call.blocks, i - 1).open
             /\ ~call.result.trace[i].open
             /\ i < Len(call.blocks) /\ IsItem(call.blocks[i + 1]) =>
                   PlaceInRun(call.blocks, i + 1) = 1
                   /\ call.result.trace[i + 1].text =
                         <<"1", ".", " ">>
                         \o render_rich_text_vec(call.blocks[i + 1].rich_text)
                         \o <<NewLine>>
             /\ /\ ~(i > 1 /\ IsNumbered(call.blocks[i - 1]))
                /\ ~Buffer(call.blocks, i - 1).open
                => SameAsWithout(i)

\* an unknown block after a paragraph and before a numbered item
C34_Witness ==
    /\ Rendered /\ Len(call.blocks) = 3
    /\ call.blocks[1].block_type = "paragraph"
    /\ IsUnknown(call.blocks[2])
    /\ IsItem(call.blocks[3])
    /\ call.result.markdown =
          <<"x", NewLine, NewLine, "1", ".", " ", "y", NewLine>>

\* ------------------------------------------------------------------------
\* Behaviour of the queue and its tasks under failure (spec 4.5, 5, 7)
\* ------------------------------------------------------------------------

\* the worker is in the enqueue loop of a scan
Scanning == worker.pc = "enqueue"

\* C36: with the in-process queue a scan always finishes: from every state
\* in which the worker enqueues the SyncPage jobs of a scan, whatever the
\* number of page ids and the occupancy of the queue, it gets through the
\* loop and back to its dequeue.
C36_ScanAlwaysFinishes ==
    (kind = "memory" /\ Scanning) ~> (worker.pc = "recv")

\* a finite listing: the cursors that upstream hands out from the first
\* page on never come back to a page already handed out; a response with
\* has_more and a null next_cursor (cursor 0) hands out none
RECURSIVE FiniteListing(_, _, _)
FiniteListing(server, c, seen) ==
    LET data == server[c] IN
    IF ~data.ok \/ ~data.has_more \/ data.next_cursor = 0 THEN TRUE
    ELSE IF data.next_cursor \in seen THEN FALSE
    ELSE FiniteListing(server, data.next_cursor, seen \cup {data.next_cursor})

\* the requests for the first page
FirstPageRequests(requests) == {i \in 1..Len(requests) : requests[i] = 0}

\* C37: for every finite listing, also one with a response that sets
\* has_more and gives a null next_cursor, fetch_block_children and
\* query_data_source_page_ids return: the first page is requested once and
\* no result is accumulated twice.
C37_PaginationTerminates ==
    (PageReturned /\ FiniteListing(call.server, 0, {})) =>
        /\ call.result.status # "running"
        /\ Cardinality(FirstPageRequests(call.result.requests)) = 1
        /\ \A i, j \in 1..Len(call.result.value) :
              call.result.value[i] = call.result.value[j] => i = j


\* the requeue tasks alive, by the id of each
TaskIds(ts) == {t.id : t \in ts}

\* the requeue tasks that end in this step
Fired == {t \in timers : t.id \notin TaskIds(timers')}

\* the producers of the entries that requeue tasks have put in a queue
RequeueEntries(q) ==
    {q[i].prod : i \in {k \in 1..Len(q) : q[k].prod[1] = "requeue"}}

\* the enqueue made in this step returned Err
EnqueueFailed == faults' = faults + 1

\* the scan makes one enqueue of its for loop in this step
ScanEnqueues == worker.pc = "enqueue" /\ worker' # worker

\* C38: a requeue task ends in the step of its one enqueue, after its
\* sleep: the step adds the job to the queue or, when the enqueue fails,
\* leaves the queue as it is, and in both cases no requeue task is
\* spawned; an entry of a requeue task appears in the queue only in that
\* step, so the job of a failed attempt is never enqueued later. A failed
\* enqueue within a scan leaves the queue as it is, the loop goes on with
\* the remaining page ids, and the scan returns Ok without a requeue task.
C38_EnqueueResultIgnored ==
    [][ /\ \A t \in Fired :
              /\ t.remaining = 0
              /\ timers' = timers \ {t}
              /\ IF EnqueueFailed THEN queue' = queue
                 ELSE queue' = Append(queue,
                          Entry(t.job, <<"requeue", t.id>>, 1, t.waited))
        /\ RequeueEntries(queue') \ RequeueEntries(queue)
              \subseteq {<<"requeue", t.id>> : t \in Fired}
        /\ ScanEnqueues =>
              /\ worker'.todo = Tail(worker.todo)
              /\ timers' = timers
              /\ worker'.pc = (IF Tail(worker.todo) = <<>> THEN "sleep"
                               ELSE "enqueue")
              /\ worker'.pc = "sleep" => worker'.result = "ok"
              /\ IF EnqueueFailed THEN queue' = queue
                 ELSE queue' = Append(queue,
                          Entry(SyncPage(worker.job.database_id,
                                         Head(worker.todo)),
                                <<"worker", 0>>, sent'[<<"worker", 0>>], -1))
      ]_vars

\* the worker is still in the sleep that follows a failed job, and the
\* requeue task of that job has ended without an entry in the queue
C38_Witness ==
    /\ kind = "redis"
    /\ worker.pc = "sleep" /\ worker.result = "failed" /\ worker.spawned = 1
    /\ timers = {} /\ RequeueEntries(queue) = {}

\* a scan goes on after an enqueue that failed
C38_ScanWentOn ==
    /\ worker.pc = "enqueue" /\ worker.todo # <<>>
    /\ Len(worker.pushed) < Len(worker.ids) - Len(worker.todo)


\* the handler spawns task k in this step
TaskSpawned(k) == web[k].kind = "none" /\ web'[k].kind # "none"

\* the page sync of task k returns Err in this step
TaskFails(k) ==
    /\ web[k].kind = "page"
    /\ web'[k].sync.pc = "done" /\ web'[k].sync.result = "err"

\* C39: the step in which the handler spawns a task is the step that
\* decides the response, which is 200, and nothing of the task has run in
\* it: the store and the queue are as before and a page sync is at its
\* first await. No step of a page sync task enqueues a job or spawns a
\* requeue task; the step in which it fails ends the task. A failed
\* enqueue of a scan task adds nothing to the queue and spawns no requeue
\* task. A task that has ended does nothing more.
C39_WebhookTaskFailureOnlyLogged ==
    [][ \A k \in 1..MaxWebhooks :
          /\ TaskSpawned(k) =>
                /\ resp'.count = k /\ resp'.status = 200
                /\ store' = store /\ queue' = queue /\ timers' = timers
                /\ web'[k].kind = "page" =>
                      web'[k].sync = StartById(extract_page_id(web'[k].req))
          /\ (web[k].kind = "page" /\ web'[k] # web[k]) =>
                queue' = queue /\ timers' = timers /\ sent' = sent
          /\ TaskFails(k) => web'[k].kind = "done"
          /\ (web[k].kind = "scan" /\ web'[k] # web[k] /\ EnqueueFailed) =>
                queue' = queue /\ timers' = timers
          /\ web[k].kind = "done" => web'[k] = web[k]
      ]_vars

\* a page sync started by the handler has failed; the request was answered
\* with 200 and there is no job and no requeue task
C39_Witness ==
    \E k \in 1..MaxWebhooks :
        /\ web[k].kind = "done" /\ web[k].sync.result = "err"
        /\ resp.count >= k /\ resp.status = 200
        /\ queue = <<>> /\ timers = {}

\* a scan started by the handler has ended after an enqueue that failed
C39_ScanFailed ==
    \E k \in 1..MaxWebhooks :
        /\ web[k].kind = "done" /\ web[k].req.json
        /\ sent[<<"web", k>>] > 0 /\ faults > 0
        /\ queue = <<>> /\ timers = {} /\ worker.pc \in {"connect", "recv"}
        /\ recvd[<<"web", k>>] = 0


\* ------------------------------------------------------------------------
\* sync_page over an upstream tree
\* ------------------------------------------------------------------------
\* a listing that the walk of this tree asks for fails: the listing of the
\* root, or of a block that has children and budget left
UpstreamFails(tree, depth) ==
    LET expected == PreOrder(tree, Kids(tree, 0), depth)
        listings == <<Root>> \o ExpandedIds(expected)
    IN \/ 0 \in tree.fail
       \/ \E i \in 2..Len(listings) : NodeOf(listings[i]) \in tree.fail

SyncOverTreeEnded ==
    /\ call.op = "sync_page" /\ "tree" \in DOMAIN call
    /\ call.pc \in {"done", "returned"}

\* C40: when a listing of the walk fails, at the root or at any block
\* below it that the walk expands, sync_page returns Err and has written
\* nothing: no write is in its log and the store of the binding is what
\* it was when sync_page was called.
C40_NoWriteOnFetchFailure ==
    (SyncOverTreeEnded /\ UpstreamFails(call.tree, call.depth)) =>
        /\ call.result = "err"
        /\ call.log = <<>>
        /\ store = call.before

\* the listing of a block two levels below the root has failed, and the
\* objects of the earlier sync are in the store
C40_Witness ==
    /\ SyncOverTreeEnded /\ call.pc = "returned"
    /\ call.tree.n = 3 /\ call.tree.par = <<0, 1, 2>>
    /\ call.tree.hc = <<TRUE, TRUE, TRUE>> /\ call.tree.fail = {2}
    /\ call.depth = 2
    /\ call.result = "err"
    /\ store = EarlierSync(DbD, PgP)


\* ------------------------------------------------------------------------
\* The service on the broker path when the process is aborted while a job
\* is being processed and is started again: the broker list and the stores
\* outlive the process, its tasks do not
\* ------------------------------------------------------------------------
\* what is known of the abort: the job in process and the numbers of the
\* enqueues made and of the entries popped up to then
AbortRecord(w) == [op |-> "abort", job |-> w.job, sent |-> sent,
                   recvd |-> recvd]

\* an erroneous recovery that puts the job in process back on the list
AbortRestored ==
    /\ kind = "redis" /\ Processing(worker) /\ call = NoCall
    /\ call' = AbortRecord(worker)
    /\ queue' = PushFront(queue, Entry(worker.job, <<"worker", 0>>,
                                       recvd[<<"worker", 0>>], -1))
    /\ worker' = [IdleWorker EXCEPT !.pc = "connect"]
    /\ active' = 0
    /\ timers' = {}
    /\ web' = [k \in 1..MaxWebhooks |-> NoTask]
    /\ rescan' = [rescan EXCEPT !.pending = <<>>]
    /\ UNCHANGED <<kind, resp, store, faults, sent, recvd, clients, codec,
                   secret>>

\* run_redis_worker between blpop and the return of handle_job: the
\* process ends and starts again; the popped payload was held by the
\* process only
Abort ==
    /\ kind = "redis" /\ Processing(worker) /\ call = NoCall
    /\ call' = AbortRecord(worker)
    /\ worker' = [IdleWorker EXCEPT !.pc = "connect"]
    /\ active' = 0
    /\ timers' = {}
    /\ web' = [k \in 1..MaxWebhooks |-> NoTask]
    /\ rescan' = [rescan EXCEPT !.pending = <<>>]
    /\ UNCHANGED <<kind, queue, resp, store, faults, sent, recvd, clients,
                   codec, secret>>

AbortInit == Init /\ kind = "redis"

AbortNext == Next \/ Abort

AbortSpec == AbortInit /\ [][AbortNext]_vars

Aborted == call # NoCall

\* the entry was popped before the abort: the job in process or a job
\* before it
PoppedBeforeAbort(abort, e) ==
    e.prod \in Producers /\ e.n <= abort.recvd[e.prod]

\* C35: a popped job is delivered at most once. The step of the abort
\* leaves the broker list as it is and leaves no requeue task and no job
\* in process; from then on no entry popped before the abort, the job in
\* process included, is in the list, and every entry the worker pops is
\* another enqueue than those.
C35_PoppedAtMostOnce ==
    [][ /\ (~Aborted /\ Aborted') =>
              /\ Processing(worker) /\ call'.job = worker.job
              /\ queue' = queue /\ timers' = {}
              /\ worker'.pc = "connect" /\ worker'.job = NoJob
        /\ Aborted' =>
              \A i \in 1..Len(queue') : ~PoppedBeforeAbort(call', queue'[i])
        /\ (Aborted /\ Dequeues) => ~PoppedBeforeAbort(call, Head(queue))
      ]_vars

\* after the abort the same job is in process again, popped from an entry
\* that an event after the abort has enqueued
C35_Witness ==
    /\ Aborted /\ Processing(worker) /\ worker.job = call.job
    /\ \E p \in Producers : sent[p] > call.sent[p] /\ recvd[p] > call.sent[p]

====
